---- MODULE Spec2Model ----
(***************************************************************************)
(* Retrieval and grading core of the RAG tutoring application:             *)
(*   - VectorDatabase (lib/vector-database.ts): add, search, clear and the *)
(*     private cosineSimilarity;                                           *)
(*   - TutorAgent.answerQuestion (lib/tutor-agent.ts), which searches the  *)
(*     store and applies the similarity floor;                             *)
(*   - the grade action of POST /api/quiz (app/api/quiz/route.ts) and      *)
(*     OllamaLLM.gradeAnswer (lib/document-processor.server.ts).           *)
(*                                                                         *)
(* Numbers.  Embedding components are small integers.  A similarity        *)
(* dot / (sqrt(mA) * sqrt(mB)) is kept exactly, as the real number         *)
(* sgn * sqrt(n / d) with n/d in lowest terms, so that equal reals are     *)
(* equal records.  IEEE-754 rounding of the square roots and of the        *)
(* division is not modelled: a similarity that the code computes as        *)
(* 0.9999999999999998 is the real number 1 here.  Only the confidence of    *)
(* the tutor, which rounds to an integer, is computed on thousandths.      *)
(*                                                                         *)
(* Specifications.  Spec: the store and its searches.  SpecTutor: the      *)
(* store and the questions answered from it.  SpecSim: cosineSimilarity on *)
(* all pairs of small vectors.  SpecGrade: one grade request and its       *)
(* response.  searchOut and tutorOut describe a call made on the present   *)
(* store; a step that changes the store forgets them.  SpecGen: one call   *)
(* of a question helper of the quiz agent.  SpecQuiz: one generateQuiz     *)
(* call and the generator calls it issues.  SpecHttp: one request to       *)
(* POST /api/tutor or POST /api/quiz and its response.  SpecChunker:       *)
(* createChunks on a text of any length up to MaxWords.  SpecInstance: the *)
(* shared instance, addDocument calls, readers and resets.                 *)
(* SpecAddDocument: addDocument calls that run without interruption.       *)
(* SpecCitations: extractCitations on a list of results.  SpecSanitize:    *)
(* sanitizeInput on one value.  SpecVectorSearch: one request to the       *)
(* vector-search handler, its timer and its child process.  SpecInit: GET  *)
(* and POST /api/init requests that overlap.                               *)
(***************************************************************************)
EXTENDS Integers, Sequences, FiniteSets, TLC

VARIABLES
    chunks,      \* VectorDatabase.chunks: the stored chunks, in insertion order
    searchOut,   \* the call of VectorDatabase.search made on the present
                 \* store, and its outcome (forgotten when the store changes)
    tutorOut,    \* the call of TutorAgent.answerQuestion made on the present
                 \* store, and its outcome (forgotten when the store changes)
    simIn,       \* arguments of a cosineSimilarity computation
    simOut,      \* its outcome
    gradeReq,    \* body of the last POST /api/quiz {action: "grade"} request
    llmReply,    \* what the generator does when that request calls it
    gradeResp,   \* the response sent to it
    genIn,       \* one call of a question helper of the quiz agent: its chunk,
                 \* its index, and what the generator and Math.random do
    genOut,      \* what that call resolved to
    quizIn,      \* arguments of a generateQuiz call
    quizCalls,   \* the generator calls that generateQuiz has issued, in order
    quizOut,     \* what generateQuiz resolved to, once it has
    httpReq,     \* a request to POST /api/tutor or POST /api/quiz
    httpResp,    \* the response sent to it
    heap,        \* every VectorDatabase object created so far: its chunks
    globalRef,   \* global.vectorDbInstance: an object of heap, or 0 (undefined)
    inFlight,    \* addDocument calls suspended at an await
    addOut,      \* an addDocument call that ran without interruption: its
                 \* arguments, the store it met and its outcome
    storeObs,    \* the last read made through getVectorDatabaseInstance
                 \* (forgotten when a store changes or the instance is reset)
    docWords,    \* number of words of the text given to createChunks
    docChunks,   \* the chunks createChunks returned
    citeIn,      \* the results given to extractCitations
    citeOut,     \* the citations it returned
    sanIn,       \* the value given to sanitizeInput
    sanOut,      \* the string it returned
    vsReq,       \* a request to the vector-search handler
    vsPc,        \* whether the handler has run for it
    pythonProcess,
                 \* the child process: none, running, killed or closed
    timeout,     \* the timer: none, armed, fired or cleared
    output,      \* what the child has written to its standard output
    resCalls,    \* the res.status(..).json(..) calls made for it, in order
    initCalls,   \* the POST /api/init requests received: where each one is
                 \* and what it answered
    statusObs    \* a GET /api/init request: the store it met and its response

\* the variables of the quiz agent, of the HTTP routes, of the shared
\* instance and of the chunker
quizVars == <<genIn, genOut, quizIn, quizCalls, quizOut>>

httpVars == <<httpReq, httpResp>>

instanceVars == <<heap, globalRef, inFlight, storeObs, addOut>>

chunkerVars == <<docWords, docChunks>>

citeVars == <<citeIn, citeOut>>

sanVars == <<sanIn, sanOut>>

vsVars == <<vsReq, vsPc, pythonProcess, timeout, output, resCalls>>

initVars == <<initCalls, statusObs>>

vars == <<chunks, searchOut, tutorOut, simIn, simOut, gradeReq, llmReply, gradeResp, quizVars, httpVars, instanceVars, chunkerVars, citeVars, sanVars, vsVars, initVars>>

----------------------------------------------------------------------------
(* Bounds of the model *)

MaxChunks == 2      \* most chunks the store holds
MaxK == 2           \* largest topK passed to search
MaxStrLen == 2      \* longest answer string of a grade request
MaxTextLen == 4     \* longest generator output, in tokens
MaxReplyLen == 3    \* longest generator output for a quiz question, in tokens
MaxQuestions == 4   \* largest numQuestions passed to generateQuiz
MaxQuestionLen == 3 \* longest question of a tutor request, in tokens
MaxWords == 1000    \* most words of a text given to createChunks
MaxObjects == 2     \* most VectorDatabase objects created
MaxInFlight == 1    \* most calls suspended at an await at one time
MaxCited == 5       \* most results given to extractCitations
MaxTailLen == 3     \* most characters after the letters of a sanitized string
MaxData == 3        \* most data events of the child of vector-search
MaxPosts == 2       \* most POST /api/init requests

----------------------------------------------------------------------------
(* Small arithmetic helpers *)

Min(x, y) == IF x <= y THEN x ELSE y

Max(x, y) == IF x >= y THEN x ELSE y

RECURSIVE GCD(_, _)
GCD(x, y) == IF y = 0 THEN x ELSE GCD(y, x % y)

----------------------------------------------------------------------------
(* Numbers of type `similarity`: sgn * sqrt(n / d), n/d in lowest terms *)

SimZero == [sgn |-> 0, n |-> 0, d |-> 1]

SimOne == [sgn |-> 1, n |-> 1, d |-> 1]

SimMinusOne == [sgn |-> -1, n |-> 1, d |-> 1]

\* what stands where no number is: nothing was returned, or NaN was
NoScore == [sgn |-> 0, n |-> 0, d |-> 0]

\* sign of x - y
SimCmp(x, y) ==
    IF x.sgn # y.sgn THEN (IF x.sgn < y.sgn THEN -1 ELSE 1)
    ELSE IF x.sgn = 0 THEN 0
    ELSE LET l == x.n * y.d
             r == y.n * x.d
         IN  IF l = r THEN 0
             ELSE IF l < r THEN -x.sgn ELSE x.sgn

\* mutant: the two Math.sqrt calls are missing
Quotient_noSqrt(dotProduct, magnitudeA, magnitudeB) ==
    IF dotProduct = 0 THEN SimZero
    ELSE LET nn == dotProduct * dotProduct
             dd == magnitudeA * magnitudeB * magnitudeA * magnitudeB
             g == GCD(nn, dd)
         IN  [sgn |-> IF dotProduct < 0 THEN -1 ELSE 1,
              n |-> nn \div g, d |-> dd \div g]

\* dotProduct / (Math.sqrt(magnitudeA) * Math.sqrt(magnitudeB)) with the sums
\* of squares magnitudeA, magnitudeB > 0
Quotient(dotProduct, magnitudeA, magnitudeB) ==
    IF dotProduct = 0 THEN SimZero
    ELSE LET nn == dotProduct * dotProduct
             dd == magnitudeA * magnitudeB
             g == GCD(nn, dd)
         IN  [sgn |-> IF dotProduct < 0 THEN -1 ELSE 1,
              n |-> nn \div g, d |-> dd \div g]

----------------------------------------------------------------------------
(* VectorDatabase.cosineSimilarity *)

\* one accumulator of the loop "for (i = 0; i < vecA.length; i++)": the sum
\* of x[i] * y[i] over the first len components
RECURSIVE SumProducts(_, _, _, _)
SumProducts(x, y, i, len) ==
    IF i > len THEN 0 ELSE x[i] * y[i] + SumProducts(x, y, i + 1, len)

Threw == [threw |-> TRUE, value |-> NoScore]

Returned(v) == [threw |-> FALSE, value |-> v]

\* mutant: only a vecA longer than vecB is rejected, a longer vecB is cut
LengthMismatch_onlyLonger(vecA, vecB) == Len(vecA) > Len(vecB)

LengthMismatch(vecA, vecB) == Len(vecA) # Len(vecB)

\* mutant: the zero-magnitude test is missing and 0 / 0 is returned
ZeroMagnitudeResult_NaN == Returned(NoScore)

ZeroMagnitudeResult == Returned(SimZero)

cosineSimilarity(vecA, vecB) ==
    IF LengthMismatch(vecA, vecB) THEN Threw
    ELSE LET dotProduct == SumProducts(vecA, vecB, 1, Len(vecA))
             magnitudeA == SumProducts(vecA, vecA, 1, Len(vecA))
             magnitudeB == SumProducts(vecB, vecB, 1, Len(vecA))
         IN  IF magnitudeA = 0 \/ magnitudeB = 0
             THEN ZeroMagnitudeResult
             ELSE Returned(Quotient(dotProduct, magnitudeA, magnitudeB))

----------------------------------------------------------------------------
(* VectorDatabase: the store *)

DocIds == {"d1"}

\* embeddings and queries the callers pass; <<1>> has another dimensionality
Embeddings == {<<1, 0>>, <<0, 1>>, <<1, 1>>, <<-1, 0>>, <<0, 0>>, <<1, 4>>, <<1>>}

\* the embeddings arrays of the documents passed to add
EmbeddingLists == {<<e>> : e \in Embeddings} \cup
                  {<<e, f>> : e, f \in Embeddings}

\* mutant: the id of a chunk does not name its document
StoredChunk_unscoped(documentId, embeddings, i) ==
    [documentId |-> documentId,
     chunkId |-> <<"", "_chunk_", i - 1>>,
     content |-> "text",
     embedding |-> embeddings[i],
     metadata |-> [filename |-> "lecture.pdf", pageNumber |-> 1,
                   topics |-> IF i = 1 THEN <<"Encryption">> ELSE <<>>,
                   chunkIndex |-> i - 1]]

\* the StoredChunk that add builds for document.embeddings[i - 1]; every
\* document of the model has the same contents and metadata entries, and
\* only its first chunk is tagged with a topic
StoredChunk(documentId, embeddings, i) ==
    [documentId |-> documentId,
     chunkId |-> <<documentId, "_chunk_", i - 1>>,
     content |-> "text",
     embedding |-> embeddings[i],
     metadata |-> [filename |-> "lecture.pdf", pageNumber |-> 1,
                   topics |-> IF i = 1 THEN <<"Encryption">> ELSE <<>>,
                   chunkIndex |-> i - 1]]

\* mutant: the chunk is put in front of the array
Push_unshift(store, chunk) == <<chunk>> \o store

\* this.chunks.push(chunk)
Push(store, chunk) == Append(store, chunk)

\* the chunks array after the loop of add has pushed embeddings i..length
RECURSIVE PushAll(_, _, _, _)
PushAll(store, documentId, embeddings, i) ==
    IF i > Len(embeddings) THEN store
    ELSE PushAll(Push(store, StoredChunk(documentId, embeddings, i)),
                 documentId, embeddings, i + 1)

\* no search has been made on the present store
NoSearch ==
    [called |-> FALSE, queryEmbedding |-> <<>>, topK |-> 0,
     threw |-> FALSE, results |-> <<>>]

\* the answer of TutorAgent.answerQuestion: the kind of its text, the
\* citations and the confidence
TutorResponse(answer, citations, confidence) ==
    [answer |-> answer, citations |-> citations, confidence |-> confidence]

\* no question has been answered on the present store
NoTutor ==
    [called |-> FALSE, embedding |-> <<>>, maxResults |-> 0,
     searchResults |-> <<>>, relevantResults |-> <<>>,
     llmCalled |-> FALSE, llmFailed |-> FALSE, contextChunks |-> <<>>,
     threw |-> FALSE, response |-> TutorResponse("none", <<>>, 0)]

add(documentId, embeddings) ==
    /\ Len(chunks) + Len(embeddings) <= MaxChunks
    /\ chunks' = PushAll(chunks, documentId, embeddings, 1)
    /\ searchOut' = NoSearch
    /\ tutorOut' = NoTutor
    /\ UNCHANGED <<simIn, simOut, gradeReq, llmReply, gradeResp, quizVars, httpVars,
                   instanceVars, chunkerVars, citeVars, sanVars, vsVars, initVars>>

clear ==
    /\ chunks' = <<>>
    /\ searchOut' = NoSearch
    /\ tutorOut' = NoTutor
    /\ UNCHANGED <<simIn, simOut, gradeReq, llmReply, gradeResp, quizVars, httpVars,
                   instanceVars, chunkerVars, citeVars, sanVars, vsVars, initVars>>

----------------------------------------------------------------------------
(* VectorDatabase.search *)

\* mutant: an empty store is reported as an error
EmptyStoreResult_throws == [threw |-> TRUE, results |-> <<>>]

\* "if (this.chunks.length === 0) return []"
EmptyStoreResult == [threw |-> FALSE, results |-> <<>>]

\* this.chunks.map(chunk => ({chunk, similarity})) up to index i; the field
\* ref is the position of the chunk object in the store (the identity of the
\* object the entry refers to)
RECURSIVE Similarities(_, _, _)
Similarities(store, queryEmbedding, i) ==
    IF i = 0 THEN <<>>
    ELSE Append(Similarities(store, queryEmbedding, i - 1),
                [ref |-> i, chunk |-> store[i],
                 similarity |-> cosineSimilarity(queryEmbedding,
                                                 store[i].embedding).value])

\* the map callback throws for some chunk
SimilaritiesThrow(store, queryEmbedding) ==
    \E i \in 1..Len(store) :
        cosineSimilarity(queryEmbedding, store[i].embedding).threw

\* mutant: (a, b) => a.similarity - b.similarity
compareFn_ascending(a, b) == SimCmp(a.similarity, b.similarity)

\* the comparator (a, b) => b.similarity - a.similarity: its sign
compareFn(a, b) == SimCmp(b.similarity, a.similarity)

\* mutant: an entry is placed before the entries it compares equal to
InsertSorted_beforeEqual(sorted, x) ==
    LET keep == {j \in 1..Len(sorted) : compareFn(sorted[j], x) < 0}
        k == Cardinality(keep)
    IN  SubSeq(sorted, 1, k) \o <<x>> \o SubSeq(sorted, k + 1, Len(sorted))

\* Array.prototype.sort is stable: x goes after every entry that the
\* comparator does not order after it
InsertSorted(sorted, x) ==
    LET keep == {j \in 1..Len(sorted) : compareFn(sorted[j], x) <= 0}
        k == Cardinality(keep)
    IN  SubSeq(sorted, 1, k) \o <<x>> \o SubSeq(sorted, k + 1, Len(sorted))

\* similarities.sort(compareFn) of the first i entries
RECURSIVE Sort(_, _)
Sort(entries, i) ==
    IF i = 0 THEN <<>> ELSE InsertSorted(Sort(entries, i - 1), entries[i])

\* mutant: slice(0, topK + 1)
Slice_oneMore(entries, end) ==
    LET len == Len(entries)
        e == end + 1
        to == IF e < 0 THEN Max(len + e, 0) ELSE Min(e, len)
    IN  SubSeq(entries, 1, to)

\* Array.prototype.slice(0, end)
Slice(entries, end) ==
    LET len == Len(entries)
        to == IF end < 0 THEN Max(len + end, 0) ELSE Min(end, len)
    IN  SubSeq(entries, 1, to)

\* the VectorSearchResult built from an entry of topResults (ref is kept to
\* tell which stored chunk the result was built from)
VectorSearchResult(entry) ==
    [ref |-> entry.ref,
     documentId |-> entry.chunk.documentId,
     chunkId |-> entry.chunk.chunkId,
     content |-> entry.chunk.content,
     similarity |-> entry.similarity,
     metadata |-> [filename |-> entry.chunk.metadata.filename,
                   pageNumber |-> entry.chunk.metadata.pageNumber,
                   topics |-> entry.chunk.metadata.topics]]

\* the outcome of search(queryEmbedding, topK) on the store
search(store, queryEmbedding, topK) ==
    IF Len(store) = 0 THEN EmptyStoreResult
    ELSE IF SimilaritiesThrow(store, queryEmbedding)
    THEN [threw |-> TRUE, results |-> <<>>]
    ELSE LET similarities == Similarities(store, queryEmbedding, Len(store))
             sorted == Sort(similarities, Len(similarities))
             topResults == Slice(sorted, topK)
         IN  [threw |-> FALSE,
              results |-> [j \in 1..Len(topResults) |->
                              VectorSearchResult(topResults[j])]]

\* values of topK: a negative one, zero, and the positive ones up to MaxK
TopKs == -1..MaxK

Search(queryEmbedding, topK) ==
    /\ LET out == search(chunks, queryEmbedding, topK)
       IN  searchOut' = [called |-> TRUE, queryEmbedding |-> queryEmbedding,
                         topK |-> topK,
                         threw |-> out.threw, results |-> out.results]
    /\ UNCHANGED <<chunks, tutorOut, simIn, simOut, gradeReq, llmReply, gradeResp, quizVars, httpVars,
                   instanceVars, chunkerVars, citeVars, sanVars, vsVars, initVars>>

----------------------------------------------------------------------------
(* TutorAgent.answerQuestion *)

\* MIN_SIMILARITY_THRESHOLD = 0.3, as sgn * sqrt(n / d)
MIN_SIMILARITY_THRESHOLD == [sgn |-> 1, n |-> 9, d |-> 100]

\* the relevance 0.8 of the web citation
WebRelevance == [sgn |-> 1, n |-> 16, d |-> 25]

\* the topK used when the query has no (or a zero) maxResults
DefaultMaxResults == 5

\* mutant: every result passes
IsRelevant_always(result) == TRUE

\* result.similarity >= this.MIN_SIMILARITY_THRESHOLD
IsRelevant(result) == SimCmp(result.similarity, MIN_SIMILARITY_THRESHOLD) >= 0

\* mutant: the results that pass are kept in the opposite order
RECURSIVE FilterRelevant_reversed(_, _)
FilterRelevant_reversed(results, i) ==
    IF i = 0 THEN <<>>
    ELSE IF IsRelevant(results[i])
    THEN <<results[i]>> \o FilterRelevant_reversed(results, i - 1)
    ELSE FilterRelevant_reversed(results, i - 1)

\* Array.prototype.filter with the predicate IsRelevant, on the first i results
RECURSIVE FilterRelevant(_, _)
FilterRelevant(results, i) ==
    IF i = 0 THEN <<>>
    ELSE IF IsRelevant(results[i])
    THEN Append(FilterRelevant(results, i - 1), results[i])
    ELSE FilterRelevant(results, i - 1)

\* mutant: the key tells every result from every other
SourceKey_perResult(result) ==
    <<result.metadata.filename, result.metadata.pageNumber, result.similarity>>

\* `${filename}-${pageNumber || "unknown"}`; the page number 0 stands for a
\* result without one
SourceKey(result) == <<result.metadata.filename, result.metadata.pageNumber>>

\* the loop of extractCitations over results i.., with the citations and
\* the keys seen so far
RECURSIVE DocumentCitations(_, _, _, _)
DocumentCitations(results, i, citations, seenSources) ==
    IF i > Len(results) THEN citations
    ELSE IF SourceKey(results[i]) \in seenSources
    THEN DocumentCitations(results, i + 1, citations, seenSources)
    ELSE DocumentCitations(results, i + 1,
             Append(citations,
                    [source |-> results[i].metadata.filename,
                     page |-> results[i].metadata.pageNumber,
                     type |-> "document",
                     relevance |-> results[i].similarity]),
             seenSources \cup {SourceKey(results[i])})

extractCitations(results) ==
    LET citations == DocumentCitations(results, 1, <<>>, {})
        withWeb == IF Len(citations) > 0
                   THEN Append(citations,
                               [source |-> "NIST Cybersecurity Framework",
                                page |-> 0, type |-> "web",
                                relevance |-> WebRelevance])
                   ELSE citations
    IN  Slice(withWeb, 5)

\* the integer square root of x, found by bisection: lo * lo <= x < hi * hi
RECURSIVE ISqrtBetween(_, _, _)
ISqrtBetween(x, lo, hi) ==
    IF hi - lo <= 1 THEN lo
    ELSE LET mid == (lo + hi) \div 2
         IN  IF mid * mid <= x THEN ISqrtBetween(x, mid, hi)
             ELSE ISqrtBetween(x, lo, mid)

\* for 0 <= x <= 1000000
ISqrt(x) == ISqrtBetween(x, 0, 1001)

\* a similarity in thousandths, rounded down
Thousandths(sim) == sim.sgn * ISqrt((sim.n * 1000000) \div sim.d)

RECURSIVE SumThousandths(_, _)
SumThousandths(results, i) ==
    IF i = 0 THEN 0
    ELSE SumThousandths(results, i - 1) + Thousandths(results[i].similarity)

\* Math.round(avgSimilarity * Math.min(length / 3, 1) * 100), computed on
\* thousandths of the similarities
calculateConfidence(results) ==
    IF Len(results) = 0 THEN 0
    ELSE LET num == SumThousandths(results, Len(results)) * Min(Len(results), 3)
             den == Len(results) * 30
         IN  (2 * num + den) \div (2 * den)

\* the answer for the outcome of generateEmbedding (an embedding, or <<>>
\* when the promise is rejected), the maxResults of the query (0 when it has
\* none) and the outcome of the generator call, should it be made
\* mutant: the catch block reports the confidence of a full answer
CaughtResponse_confident == TutorResponse("error", <<>>, 100)

\* the response that the catch block returns
CaughtResponse == TutorResponse("error", <<>>, 0)

\* The whole body is inside try, and the catch block returns: the promise
\* of answerQuestion is never rejected (threw stays FALSE).
answerQuestion(store, embedding, maxResults, llmFails) ==
    LET out == search(store, embedding,
                      IF maxResults = 0 THEN DefaultMaxResults ELSE maxResults)
        relevantResults == FilterRelevant(out.results, Len(out.results))
        caught == [NoTutor EXCEPT !.called = TRUE, !.embedding = embedding,
                                  !.maxResults = maxResults,
                                  !.response = CaughtResponse]
    IN  IF embedding = <<>> \/ out.threw THEN caught
        ELSE IF Len(relevantResults) = 0
        THEN [caught EXCEPT !.searchResults = out.results,
                            !.response = TutorResponse("not found", <<>>, 0)]
        ELSE IF llmFails
        THEN [caught EXCEPT !.searchResults = out.results,
                            !.relevantResults = relevantResults,
                            !.llmCalled = TRUE,
                            !.llmFailed = TRUE,
                            !.contextChunks =
                                [j \in 1..Len(relevantResults) |->
                                    relevantResults[j].content]]
        ELSE [caught EXCEPT !.searchResults = out.results,
                            !.relevantResults = relevantResults,
                            !.llmCalled = TRUE,
                            !.contextChunks =
                                [j \in 1..Len(relevantResults) |->
                                    relevantResults[j].content],
                            !.response =
                                TutorResponse("generated",
                                    extractCitations(relevantResults),
                                    calculateConfidence(relevantResults))]

AnswerQuestion ==
    \E embedding \in Embeddings \cup {<<>>}, maxResults \in 0..MaxK,
       llmFails \in BOOLEAN :
        /\ tutorOut' = answerQuestion(chunks, embedding, maxResults, llmFails)
        /\ UNCHANGED <<chunks, searchOut, simIn, simOut, gradeReq, llmReply,
                       gradeResp, quizVars, httpVars,
                   instanceVars, chunkerVars, citeVars, sanVars, vsVars, initVars>>

----------------------------------------------------------------------------
(* The store and its searches *)

NoSim == [called |-> FALSE, threw |-> FALSE, value |-> NoScore]

\* a JSON value of a request body: a string (its characters), a number, or
\* a field that is absent
Str(chars) == [type |-> "string", chars |-> chars]

Undefined == [type |-> "undefined", chars |-> <<>>]

Number == [type |-> "number", chars |-> <<>>]

NoGradeReq ==
    [action |-> "none", question |-> "", userAnswer |-> Undefined,
     correctAnswer |-> Undefined, questionType |-> ""]

NoReply == [failed |-> TRUE, text |-> <<>>]

NoGradeResp ==
    [status |-> 0, hasScore |-> FALSE, score |-> 0, isCorrect |-> FALSE,
     feedback |-> <<>>, llmCalled |-> FALSE]


\* a chunk in the DocumentChunk format that the quiz route builds
QuizChunk(id, content, topics) ==
    [id |-> id, content |-> content, topics |-> topics,
     filename |-> "lecture.pdf"]

NoQuestion ==
    [id |-> <<>>, type |-> "none", question |-> <<>>, options |-> <<>>,
     correctAnswer |-> <<>>, topic |-> "", difficulty |-> "",
     citations |-> <<>>]

NoGenIn ==
    [type |-> "none", chunk |-> QuizChunk("", <<>>, <<>>), idx |-> 0,
     outcome |-> [kind |-> "rejects", text |-> <<>>]]

NoGenOut == [called |-> FALSE, question |-> NoQuestion]

NoQuizIn == [chunks |-> <<>>, numQuestions |-> 0, topic |-> ""]

NoQuizOut == [started |-> FALSE, done |-> FALSE, questions |-> <<>>]

NoHttpReq == [route |-> "none"]

\* a response: its status, the calls the handler made before sending it,
\* and the body of a tutor, generate or grade response
HttpResponse(status, calls, tutor, questions, grade) ==
    [status |-> status, calls |-> calls, tutor |-> tutor,
     questions |-> questions, grade |-> grade]

NoGrade == [hasScore |-> FALSE, score |-> 0, feedback |-> <<>>]

NoHttpResp == HttpResponse(0, {}, TutorResponse("none", <<>>, 0), <<>>, NoGrade)

\* nothing has been read through getVectorDatabaseInstance
NoStoreObs ==
    [called |-> FALSE, ref |-> 0, chunks |-> <<>>,
     stats |-> [totalDocuments |-> 0, totalChunks |-> 0, topics |-> <<>>]]

IdleCore ==
    /\ chunks = <<>>
    /\ searchOut = NoSearch
    /\ tutorOut = NoTutor
    /\ simIn = <<<<>>, <<>>>>
    /\ simOut = NoSim
    /\ gradeReq = NoGradeReq
    /\ llmReply = NoReply
    /\ gradeResp = NoGradeResp

IdleGen == genIn = NoGenIn /\ genOut = NoGenOut

IdleQuiz == quizIn = NoQuizIn /\ quizCalls = <<>> /\ quizOut = NoQuizOut

IdleHttp == httpReq = NoHttpReq /\ httpResp = NoHttpResp

\* no addDocument call has just finished
NoAddOut ==
    [called |-> FALSE, ref |-> 0, documentId |-> "", embeddings |-> <<>>,
     before |-> <<>>, error |-> ""]

IdleInstance ==
    /\ heap = <<>>
    /\ globalRef = 0
    /\ inFlight = {}
    /\ storeObs = NoStoreObs
    /\ addOut = NoAddOut

NoChunks == [called |-> FALSE, chunks |-> <<>>]

IdleChunker == docWords = 0 /\ docChunks = NoChunks

NoCitations == [called |-> FALSE, citations |-> <<>>]

IdleCite == citeIn = <<>> /\ citeOut = NoCitations

NoSanitized == [called |-> FALSE, clean |-> <<>>]

IdleSan == sanIn = Undefined /\ sanOut = NoSanitized

NoVsRequest == [method |-> "none", question |-> FALSE, context |-> FALSE]

IdleVs ==
    /\ vsReq = NoVsRequest
    /\ vsPc = "idle"
    /\ pythonProcess = "none"
    /\ timeout = "none"
    /\ output = <<>>
    /\ resCalls = <<>>

NoStatus ==
    [called |-> FALSE, store |-> <<>>, success |-> FALSE,
     initialized |-> FALSE, stats |-> <<>>]

IdleInit == initCalls = <<>> /\ statusObs = NoStatus

\* no subsystem but the store, the tutor, cosineSimilarity and grading runs
IdleLater == IdleGen /\ IdleQuiz /\ IdleHttp /\ IdleInstance /\ IdleChunker /\ IdleCite /\ IdleSan /\ IdleVs /\ IdleInit

Init ==
    /\ chunks = <<>>
    /\ searchOut = NoSearch
    /\ tutorOut = NoTutor
    /\ simIn = <<<<>>, <<>>>>
    /\ simOut = NoSim
    /\ gradeReq = NoGradeReq
    /\ llmReply = NoReply
    /\ gradeResp = NoGradeResp
    /\ IdleLater

Add == \E documentId \in DocIds, embeddings \in EmbeddingLists :
           add(documentId, embeddings)

SearchAny == \E queryEmbedding \in Embeddings, topK \in TopKs :
                 Search(queryEmbedding, topK)

Next == Add \/ SearchAny \/ clear

Spec == Init /\ [][Next]_vars

\* the store and the questions put to the tutor
NextTutor == Add \/ AnswerQuestion \/ clear

SpecTutor == Init /\ [][NextTutor]_vars

----------------------------------------------------------------------------
(* cosineSimilarity on its own: the arguments are drawn in the initial     *)
(* state and one step applies the function                                 *)

Components == -2..2

\* all vectors of one or two components
Vectors == {<<x>> : x \in Components} \cup
           {<<x, y>> : x, y \in Components}

InitSim ==
    /\ chunks = <<>>
    /\ searchOut = NoSearch
    /\ tutorOut = NoTutor
    /\ simIn \in Vectors \X Vectors
    /\ simOut = NoSim
    /\ gradeReq = NoGradeReq
    /\ llmReply = NoReply
    /\ gradeResp = NoGradeResp
    /\ IdleLater

CosineSimilarityCall ==
    /\ ~simOut.called
    /\ LET out == cosineSimilarity(simIn[1], simIn[2])
       IN  simOut' = [called |-> TRUE, threw |-> out.threw,
                      value |-> out.value]
    /\ UNCHANGED <<chunks, searchOut, tutorOut, simIn, gradeReq, llmReply, gradeResp, quizVars, httpVars,
                   instanceVars, chunkerVars, citeVars, sanVars, vsVars, initVars>>

NextSim == CosineSimilarityCall

SpecSim == InitSim /\ [][NextSim]_vars

----------------------------------------------------------------------------
(* Strings of the grade request: sequences of characters *)

Chars == {"a", "A", "b", " "}

RECURSIVE SeqsUpTo(_, _)
SeqsUpTo(S, n) ==
    IF n = 0 THEN {<<>>}
    ELSE LET shorter == SeqsUpTo(S, n - 1)
         IN  shorter \cup {Append(t, c) : t \in shorter, c \in S}

Strings == SeqsUpTo(Chars, MaxStrLen)

IsWhitespace(c) == c = " "

\* String.prototype.toLowerCase
toLowerCase(str) == [i \in 1..Len(str) |-> IF str[i] = "A" THEN "a" ELSE str[i]]

\* mutant: trim is not applied
trim_missing(str) == str

\* String.prototype.trim: whitespace is removed from both ends
trim(str) ==
    LET solid == {i \in 1..Len(str) : ~IsWhitespace(str[i])}
    IN  IF solid = {} THEN <<>>
        ELSE LET first == CHOOSE i \in solid :
                              \A j \in 1..(i - 1) : IsWhitespace(str[j])
                 last == CHOOSE i \in solid :
                             \A j \in (i + 1)..Len(str) : IsWhitespace(str[j])
             IN  SubSeq(str, first, last)

----------------------------------------------------------------------------
(* OllamaLLM.gradeAnswer: parsing of the generator's text.  A text is a    *)
(* sequence of tokens: the words "Score:" and "Feedback:" (in two          *)
(* spellings, the patterns ignore case), a blank, digits, other characters *)

Tokens == {"Score:", "score:", "Feedback:", " ", "1", "0", "x"}

Texts == SeqsUpTo(Tokens, MaxTextLen)

IsScoreWord(t) == t \in {"Score:", "score:"}

IsFeedbackWord(t) == t = "Feedback:"

IsDigit(t) == t \in {"0", "1"}

DigitValue(t) == IF t = "1" THEN 1 ELSE 0

\* the first position from i on that holds no whitespace (\s* is greedy)
RECURSIVE SkipWhitespace(_, _)
SkipWhitespace(text, i) ==
    IF i <= Len(text) /\ IsWhitespace(text[i])
    THEN SkipWhitespace(text, i + 1) ELSE i

\* the position after the digits that start at i (\d+ is greedy)
RECURSIVE SkipDigits(_, _)
SkipDigits(text, i) ==
    IF i <= Len(text) /\ IsDigit(text[i])
    THEN SkipDigits(text, i + 1) ELSE i

\* /Score:\s*(\d+)/i matches with the word at position i
ScoreMatchesAt(text, i) ==
    /\ IsScoreWord(text[i])
    /\ SkipDigits(text, SkipWhitespace(text, i + 1))
           > SkipWhitespace(text, i + 1)

\* text.match(/Score:\s*(\d+)/i): group 1 of the leftmost match, <<>> for null
scoreMatch(text) ==
    LET at == {i \in 1..Len(text) : ScoreMatchesAt(text, i)}
    IN  IF at = {} THEN <<>>
        ELSE LET i == CHOOSE k \in at : \A m \in at : k <= m
                 from == SkipWhitespace(text, i + 1)
             IN  SubSeq(text, from, SkipDigits(text, from) - 1)

\* parseInt of a string of digits
RECURSIVE parseInt(_)
parseInt(digits) ==
    IF digits = <<>> THEN 0
    ELSE 10 * parseInt(SubSeq(digits, 1, Len(digits) - 1))
             + DigitValue(digits[Len(digits)])

\* /Feedback:\s*([\s\S]+)/i matches with the word at position i: something
\* must follow the word
FeedbackMatchesAt(text, i) == IsFeedbackWord(text[i]) /\ i < Len(text)

\* text.match(/Feedback:\s*([\s\S]+)/i): whether it matched, and group 1.
\* When only whitespace follows the word, \s* gives the last blank back to
\* the group.
feedbackMatch(text) ==
    LET at == {i \in 1..Len(text) : FeedbackMatchesAt(text, i)}
    IN  IF at = {} THEN [matched |-> FALSE, group |-> <<>>]
        ELSE LET i == CHOOSE k \in at : \A m \in at : k <= m
                 from == Min(SkipWhitespace(text, i + 1), Len(text))
             IN  [matched |-> TRUE, group |-> SubSeq(text, from, Len(text))]

\* mutant: a missing score counts as 0
Score_defaultZero(text) ==
    IF scoreMatch(text) # <<>> THEN parseInt(scoreMatch(text)) ELSE 0

\* const score = scoreMatch ? parseInt(scoreMatch[1]) : 50
Score(text) ==
    IF scoreMatch(text) # <<>> THEN parseInt(scoreMatch(text)) ELSE 50

\* const feedback = feedbackMatch ? feedbackMatch[1].trim() : response.text
Feedback(text) ==
    IF feedbackMatch(text).matched THEN trim(feedbackMatch(text).group)
    ELSE text

\* gradeAnswer for the reply of this.generate: generate throws when the call
\* fails, and the exception leaves gradeAnswer
gradeAnswer(reply) ==
    IF reply.failed THEN [threw |-> TRUE, score |-> 0, feedback |-> <<>>]
    ELSE [threw |-> FALSE, score |-> Score(reply.text),
          feedback |-> Feedback(reply.text)]

----------------------------------------------------------------------------
(* POST /api/quiz with action "grade" *)

ClosedForm(questionType) == questionType \in {"multiple-choice", "true-false"}

ErrorResponse(status) ==
    [status |-> status, hasScore |-> FALSE, score |-> 0, isCorrect |-> FALSE,
     feedback |-> <<>>, llmCalled |-> FALSE]

\* userAnswer.toLowerCase().trim() === correctAnswer.toLowerCase().trim()
IsCorrect(userAnswer, correctAnswer) ==
    trim(toLowerCase(userAnswer.chars)) = trim(toLowerCase(correctAnswer.chars))

\* the response to the request req when the generator behaves as reply
gradeRoute(req, reply) ==
    IF req.question = "" \/ req.userAnswer = Undefined
    THEN ErrorResponse(400)
    ELSE IF ClosedForm(req.questionType)
    THEN \* toLowerCase of a value that is no string is a TypeError, which
         \* the outer catch turns into status 500
         IF req.userAnswer.type # "string" \/ req.correctAnswer.type # "string"
         THEN ErrorResponse(500)
         ELSE LET isCorrect == IsCorrect(req.userAnswer, req.correctAnswer)
              IN  [status |-> 200, hasScore |-> TRUE,
                   score |-> IF isCorrect THEN 100 ELSE 0,
                   isCorrect |-> isCorrect,
                   feedback |-> IF isCorrect THEN <<"Correct! Well done.">>
                                ELSE <<"Incorrect. The correct answer is: ">>
                                         \o req.correctAnswer.chars,
                   llmCalled |-> FALSE]
    ELSE IF req.questionType = "open-ended"
    THEN LET gradingResult == gradeAnswer(reply)
         IN  IF gradingResult.threw
             THEN [status |-> 200, hasScore |-> TRUE, score |-> 50,
                   isCorrect |-> FALSE,
                   feedback |-> <<"Unable to grade automatically. Please review your answer.">>,
                   llmCalled |-> TRUE]
             ELSE [status |-> 200, hasScore |-> TRUE,
                   score |-> gradingResult.score, isCorrect |-> FALSE,
                   feedback |-> gradingResult.feedback, llmCalled |-> TRUE]
    ELSE ErrorResponse(400)

\* the bodies of closed-form and other requests; the generator is not reached
ClosedFormRequests ==
    [action : {"grade"}, question : {"", "q"},
     userAnswer : {Str(c) : c \in Strings} \cup {Undefined, Number},
     correctAnswer : {Str(c) : c \in Strings} \cup {Undefined},
     questionType : {"multiple-choice", "true-false", "essay"}]

\* the bodies of open-ended requests
OpenEndedRequests ==
    [action : {"grade"}, question : {"", "q"},
     userAnswer : {Str(<<"a">>), Undefined},
     correctAnswer : {Str(<<"b">>)},
     questionType : {"open-ended"}]

\* what the generator may do: fail, or return a text
Replies == {NoReply} \cup {[failed |-> FALSE, text |-> t] : t \in Texts}

InitGrade ==
    /\ chunks = <<>>
    /\ searchOut = NoSearch
    /\ tutorOut = NoTutor
    /\ simIn = <<<<>>, <<>>>>
    /\ simOut = NoSim
    /\ \/ gradeReq \in ClosedFormRequests /\ llmReply = NoReply
       \/ gradeReq \in OpenEndedRequests /\ llmReply \in Replies
    /\ gradeResp = NoGradeResp
    /\ IdleLater

POST_grade ==
    /\ gradeResp.status = 0
    /\ gradeResp' = gradeRoute(gradeReq, llmReply)
    /\ UNCHANGED <<chunks, searchOut, tutorOut, simIn, simOut, gradeReq, llmReply, quizVars, httpVars,
                   instanceVars, chunkerVars, citeVars, sanVars, vsVars, initVars>>

NextGrade == POST_grade

SpecGrade == InitGrade /\ [][NextGrade]_vars

----------------------------------------------------------------------------
(* The question helpers of the quiz agent (the listing of quiz-agent.ts in *)
(* README.md): generateMultipleChoice, generateTrueFalse and               *)
(* generateOpenEnded.  A generator text is a sequence of tokens: the field *)
(* words of the prompts, two option labels, the word True, another word    *)
(* and the line break NL.  A chunk's content is the sequence of its        *)
(* sentences, which is what content.split(/(?<=[.!?])\s+/) returns.  No    *)
(* token ends with a letter in parentheses, so the removal of a trailing   *)
(* "(A)" from a multiple-choice question changes nothing here.             *)

GenTokens ==
    {"Question:", "Correct Answer:", "Expected Answer:", "A)", "B)", "True",
     "w", "NL"}

GenTexts == SeqsUpTo(GenTokens, MaxReplyLen)

\* the least element of a non-empty set of positions
Least(S) == CHOOSE x \in S : \A y \in S : x <= y

\* llmResponse.replace(/[\r\n]+/g, '\n'): a run of line breaks becomes one
RECURSIVE CleanResponse(_)
CleanResponse(text) ==
    IF Len(text) < 2 THEN text
    ELSE IF text[1] = "NL" /\ text[2] = "NL" THEN CleanResponse(Tail(text))
    ELSE <<text[1]>> \o CleanResponse(Tail(text))

\* the first position from i on that holds no line break (\s* is greedy)
RECURSIVE SkipBreaks(_, _)
SkipBreaks(text, i) ==
    IF i <= Len(text) /\ text[i] = "NL" THEN SkipBreaks(text, i + 1) ELSE i

\* the last position of the line that starts at i ([^\n]+ is greedy)
RECURSIVE LineEnd(_, _)
LineEnd(text, i) ==
    IF i < Len(text) /\ text[i + 1] # "NL" THEN LineEnd(text, i + 1) ELSE i

\* the last position of the group [^\n]+(?:\n(?!stop)[^\n]+)* that starts
\* at i: further lines are taken as long as they do not begin with stop
RECURSIVE LinesEnd(_, _, _)
LinesEnd(text, i, stop) ==
    LET end == LineEnd(text, i)
    IN  IF end + 1 < Len(text) /\ text[end + 2] # "NL" /\ text[end + 2] # stop
        THEN LinesEnd(text, end + 2, stop)
        ELSE end

NoMatch == [matched |-> FALSE, group |-> <<>>]

\* text.match(/word\s*([^\n]+)/): the leftmost occurrence of the word that
\* is followed, after line breaks, by the rest of a line
lineMatch(text, word) ==
    LET at == {i \in 1..Len(text) :
                  text[i] = word /\ SkipBreaks(text, i + 1) <= Len(text)}
    IN  IF at = {} THEN NoMatch
        ELSE LET from == SkipBreaks(text, Least(at) + 1)
             IN  [matched |-> TRUE,
                  group |-> SubSeq(text, from, LineEnd(text, from))]

\* text.match(/Question:\s*([^\n]+(?:\n(?!stop)[^\n]+)*)/)
linesMatch(text, stop) ==
    LET at == {i \in 1..Len(text) :
                  text[i] = "Question:" /\ SkipBreaks(text, i + 1) <= Len(text)}
    IN  IF at = {} THEN NoMatch
        ELSE LET from == SkipBreaks(text, Least(at) + 1)
             IN  [matched |-> TRUE,
                  group |-> SubSeq(text, from, LinesEnd(text, from, stop))]

\* replace(/\n+/g, ' ') on a group, in which no two line breaks are adjacent
JoinLines(group) ==
    [i \in 1..Len(group) |-> IF group[i] = "NL" THEN " " ELSE group[i]]

\* question.replace(/\s*word.*$/i, '').trim() on a question of one line:
\* everything from the first occurrence of the word on is removed
RemoveLeak(question, word) ==
    LET at == {i \in 1..Len(question) : question[i] = word}
    IN  IF at = {} THEN trim(question)
        ELSE trim(SubSeq(question, 1, Least(at) - 1))

\* the letter of [A-D] (ignoring case) that a token begins with, in upper
\* case; "" when it begins with another character
AnswerLetter(token) ==
    CASE token = "A)" -> "A"
      [] token = "B)" -> "B"
      [] token = "Correct Answer:" -> "C"
      [] OTHER -> ""

\* cleanResponse.match(/Correct Answer:\s*([A-D])/i), in upper case
letterMatch(text) ==
    LET at == {i \in 1..Len(text) :
                  /\ text[i] = "Correct Answer:"
                  /\ SkipBreaks(text, i + 1) <= Len(text)
                  /\ AnswerLetter(text[SkipBreaks(text, i + 1)]) # ""}
    IN  IF at = {} THEN NoMatch
        ELSE [matched |-> TRUE,
              group |-> <<AnswerLetter(text[SkipBreaks(text, Least(at) + 1)])>>]

\* cleanResponse.match(/Correct Answer:\s*(True|False)/i), in upper case
truthMatch(text) ==
    LET at == {i \in 1..Len(text) :
                  /\ text[i] = "Correct Answer:"
                  /\ SkipBreaks(text, i + 1) <= Len(text)
                  /\ text[SkipBreaks(text, i + 1)] = "True"}
    IN  IF at = {} THEN NoMatch ELSE [matched |-> TRUE, group |-> <<"TRUE">>]

\* cleanResponse.match(/Expected Answer:\s*(.+)$/): the group runs to the
\* end of the text and holds no line break
expectedMatch(text) ==
    LET at == {i \in 1..Len(text) :
                  /\ text[i] = "Expected Answer:"
                  /\ SkipBreaks(text, i + 1) <= Len(text)
                  /\ LineEnd(text, SkipBreaks(text, i + 1)) = Len(text)}
    IN  IF at = {} THEN NoMatch
        ELSE [matched |-> TRUE,
              group |-> SubSeq(text, SkipBreaks(text, Least(at) + 1), Len(text))]

\* the first sentence of the chunk, or its whole content when the first
\* piece is empty: sentences[0] || chunk.content
FirstSentence(content) ==
    IF content = <<>> THEN content ELSE <<content[1]>>

\* sentences[1] || "(See document)"
SecondSentence(content) ==
    IF Len(content) < 2 THEN <<"(See document)">> ELSE <<content[2]>>

\* chunk.metadata.topics?.[0] || "General"
FirstTopic(chunk) ==
    IF chunk.topics = <<>> THEN "General" ELSE chunk.topics[1]

\* the fields every question has; true-false and open-ended questions have
\* no options
QuizQuestion(prefix, type, chunk, idx, question, options, correctAnswer) ==
    [id |-> <<prefix, chunk.id, idx>>, type |-> type, question |-> question,
     options |-> options, correctAnswer |-> correctAnswer,
     topic |-> FirstTopic(chunk), difficulty |-> "medium",
     citations |-> <<[source |-> IF chunk.filename = "" THEN "Unknown"
                                 ELSE chunk.filename,
                      type |-> "document"]>>]

\* what the awaited generateQuizQuestion call does: it resolves to a text,
\* resolves to undefined (a reply of the generator without a response
\* field) or rejects
Returns(text) == [kind |-> "text", text |-> text]

ReturnsUndefined == [kind |-> "undefined", text |-> <<>>]

Rejects == [kind |-> "rejects", text |-> <<>>]

\* the try block is left by an exception: the call rejected, or
\* llmResponse.replace was applied to undefined
Caught(outcome) == outcome.kind # "text"

\* questionMatch ? questionMatch[1] : default
ParsedQuestion(match, default) ==
    IF match.matched THEN match.group ELSE <<default>>

\* mutant: the catch block also answers with the placeholder
FallbackQuestion_placeholder(content) == <<"Generated question">>

\* the question of the catch blocks: sentences[0] || chunk.content
FallbackQuestion(content) == FirstSentence(content)

\* mutant: the answer is the letter, not the text of the option
CorrectOption_letter(options, correctIndex) ==
    <<CASE correctIndex = 0 -> "A" [] correctIndex = 1 -> "B"
        [] correctIndex = 2 -> "C" [] OTHER -> "D">>

\* options[correctIndex] || options[0]
CorrectOption(options, correctIndex) ==
    IF options[correctIndex + 1] # <<>>
    THEN options[correctIndex + 1] ELSE options[1]

generateMultipleChoice(chunk, idx, outcome, order) ==
    IF Caught(outcome)
    THEN LET question == FallbackQuestion(chunk.content)
             correctAnswer == SecondSentence(chunk.content)
             options == <<correctAnswer, <<"Option A">>, <<"Option B">>,
                          <<"Option C">>>>
         IN  QuizQuestion("mcq-", "multiple-choice", chunk, idx, question,
                          [i \in 1..4 |-> options[order[i]]], correctAnswer)
    ELSE LET cleanResponse == CleanResponse(outcome.text)
             question ==
                 RemoveLeak(ParsedQuestion(lineMatch(cleanResponse, "Question:"),
                                           "Generated question"),
                            "Correct Answer:")
             optionA == lineMatch(cleanResponse, "A)")
             optionB == lineMatch(cleanResponse, "B)")
             options ==
                 <<IF optionA.matched THEN trim(optionA.group)
                   ELSE <<"Option A">>,
                   IF optionB.matched THEN trim(optionB.group)
                   ELSE <<"Option B">>,
                   <<"Option C">>, <<"Option D">>>>
             answerMatch == letterMatch(cleanResponse)
             correctLetter ==
                 IF answerMatch.matched THEN answerMatch.group[1] ELSE "A"
             correctIndex ==
                 CASE correctLetter = "A" -> 0
                   [] correctLetter = "B" -> 1
                   [] correctLetter = "C" -> 2
                   [] OTHER -> 3
             correctAnswer == CorrectOption(options, correctIndex)
         IN  QuizQuestion("mcq-", "multiple-choice", chunk, idx, question,
                          options, correctAnswer)

generateTrueFalse(chunk, idx, outcome, isTrue) ==
    IF Caught(outcome)
    THEN QuizQuestion("tf-", "true-false", chunk, idx,
                      <<"True or False: ">> \o FallbackQuestion(chunk.content),
                      <<>>, IF isTrue THEN <<"True">> ELSE <<"False">>)
    ELSE LET cleanResponse == CleanResponse(outcome.text)
             questionMatch == linesMatch(cleanResponse, "Correct Answer:")
             question ==
                 RemoveLeak(
                     ParsedQuestion(
                         [questionMatch EXCEPT
                              !.group = JoinLines(trim(questionMatch.group))],
                         "Generated true/false question"),
                     "Correct Answer:")
             answerMatch == truthMatch(cleanResponse)
             correctAnswer ==
                 IF answerMatch.matched THEN answerMatch.group ELSE <<"TRUE">>
         IN  QuizQuestion("tf-", "true-false", chunk, idx, question, <<>>,
                          correctAnswer)

generateOpenEnded(chunk, idx, outcome) ==
    IF Caught(outcome)
    THEN QuizQuestion("oe-", "open-ended", chunk, idx,
                      <<"Explain: ">> \o FallbackQuestion(chunk.content),
                      <<>>, <<"(See document)">>)
    ELSE LET cleanResponse == CleanResponse(outcome.text)
             questionMatch == linesMatch(cleanResponse, "Expected Answer:")
             question ==
                 RemoveLeak(
                     RemoveLeak(
                         ParsedQuestion(
                             [questionMatch EXCEPT
                                  !.group = JoinLines(trim(questionMatch.group))],
                             "Generated open-ended question"),
                         "Expected Answer:"),
                     "Correct Answer:")
             answerMatch == expectedMatch(cleanResponse)
             correctAnswer ==
                 IF answerMatch.matched THEN trim(answerMatch.group)
                 ELSE <<"(See document)">>
         IN  QuizQuestion("oe-", "open-ended", chunk, idx, question, <<>>,
                          correctAnswer)

\* mutant: the types alternate between two
QuestionType_alternating(i) ==
    IF i % 2 = 0 THEN "multiple-choice" ELSE "true-false"

\* the helper that generateQuiz calls for the question of index i
QuestionType(i) ==
    IF i % 3 = 0 THEN "multiple-choice"
    ELSE IF i % 3 = 1 THEN "true-false" ELSE "open-ended"

\* the question that the helper of the given type resolves to
generateQuestion(type, chunk, idx, outcome, order, isTrue) ==
    IF type = "multiple-choice"
    THEN generateMultipleChoice(chunk, idx, outcome, order)
    ELSE IF type = "true-false"
    THEN generateTrueFalse(chunk, idx, outcome, isTrue)
    ELSE generateOpenEnded(chunk, idx, outcome)

\* what Math.random decides: only the catch blocks of the multiple-choice
\* helper (options.sort with a random comparison, which leaves some
\* permutation of the options) and of the true-false helper (the answer)
\* consult it
Orders(type, outcome) ==
    IF type = "multiple-choice" /\ Caught(outcome) THEN Permutations(1..4)
    ELSE {[i \in 1..4 |-> i]}

Coins(type, outcome) ==
    IF type = "true-false" /\ Caught(outcome) THEN BOOLEAN ELSE {FALSE}

\* one helper call on its own: the chunk, the type and what the generator
\* does are drawn in the initial state and one step runs the helper
QuestionTypes == {"multiple-choice", "true-false", "open-ended"}

GenChunks ==
    {QuizChunk("c1", content, <<"Encryption">>) :
         content \in {<<>>, <<"S1.">>, <<"S1.", "S2.">>}}
        \cup {QuizChunk("c2", <<"S1.">>, <<>>)}

GenOutcomes == {Rejects, ReturnsUndefined} \cup {Returns(t) : t \in GenTexts}

InitGen ==
    /\ IdleCore
    /\ genIn \in [type : QuestionTypes, chunk : GenChunks, idx : {0},
                  outcome : GenOutcomes]
    /\ genOut = NoGenOut
    /\ IdleQuiz
    /\ IdleHttp
    /\ IdleInstance
    /\ IdleChunker
    /\ IdleCite
    /\ IdleSan
    /\ IdleVs
    /\ IdleInit

GenerateQuestion ==
    /\ ~genOut.called
    /\ \E order \in Orders(genIn.type, genIn.outcome),
          isTrue \in Coins(genIn.type, genIn.outcome) :
           genOut' = [called |-> TRUE,
                      question |-> generateQuestion(genIn.type, genIn.chunk,
                                                    genIn.idx, genIn.outcome,
                                                    order, isTrue)]
    /\ UNCHANGED <<chunks, searchOut, tutorOut, simIn, simOut, gradeReq,
                   llmReply, gradeResp, genIn, quizIn, quizCalls, quizOut,
                   httpVars, instanceVars, chunkerVars, citeVars, sanVars, vsVars, initVars>>

NextGen == GenerateQuestion

SpecGen == InitGen /\ [][NextGen]_vars

----------------------------------------------------------------------------
(* generateQuiz of the quiz agent (README.md).  The loop calls one helper  *)
(* per selected chunk without awaiting it: each helper runs up to its      *)
(* await of generateQuizQuestion, which sends the request to the           *)
(* generator.  The calls then settle one by one, in any order or never,    *)
(* and Promise.all resolves once all helpers have resolved.  No helper     *)
(* rejects, so Promise.all never rejects.                                  *)

\* chunks.filter(c => c.metadata.topics && c.metadata.topics.includes(topic))
\* when a topic is given ("" stands for undefined), and all chunks when the
\* filter leaves none
TopicFilter(candidates, topic) ==
    LET matching ==
            SelectSeq(candidates,
                      LAMBDA c : \E k \in 1..Len(c.topics) : c.topics[k] = topic)
        filtered == IF topic # "" THEN matching ELSE candidates
    IN  IF Len(filtered) = 0 THEN candidates ELSE filtered

\* mutant: every pick is the same element
pickRandom_repeating(arr, n, shuffle) ==
    Slice([i \in 1..Len(arr) |-> arr[shuffle[1]]], n)

\* arr.slice().sort(() => 0.5 - Math.random()).slice(0, n): the sort leaves
\* some permutation of arr
pickRandom(arr, n, shuffle) ==
    Slice([i \in 1..Len(arr) |-> arr[shuffle[i]]], n)

\* the chunks that generateQuiz selects
SelectedChunks(candidates, numQuestions, topic, shuffle) ==
    LET filtered == TopicFilter(candidates, topic)
    IN  pickRandom(filtered, Min(numQuestions, Len(filtered)), shuffle)

\* the ways Math.random may shuffle the filtered chunks
Shuffles(candidates, topic) ==
    Permutations(1..Len(TopicFilter(candidates, topic)))

\* the helper call issued for selectedChunks[i - 1], not yet settled
IssuedCall(chunk, i) ==
    [chunk |-> chunk, idx |-> i - 1, type |-> QuestionType(i - 1),
     settled |-> FALSE, failed |-> FALSE, question |-> NoQuestion]

\* mutant: the quiz is returned as soon as one helper has resolved
AllSettled_any(calls) ==
    Len(calls) = 0 \/ \E i \in 1..Len(calls) : calls[i].settled

\* await Promise.all(questionPromises) resumes when every helper has
\* resolved
AllSettled(calls) == \A i \in 1..Len(calls) : calls[i].settled

\* the candidate lists passed to generateQuiz; their ids are distinct
QuizChunkLists ==
    LET c1 == QuizChunk("c1", <<"S1.", "S2.">>, <<"Encryption">>)
        c2 == QuizChunk("c2", <<"S1.">>, <<>>)
        c3 == QuizChunk("c3", <<>>, <<"Encryption", "VPN">>)
        c4 == QuizChunk("c4", <<"S1.">>, <<"VPN">>)
    IN  {<<>>, <<c1>>, <<c1, c2>>, <<c1, c2, c3>>, <<c1, c2, c3, c4>>}

\* what a generator call of a quiz may do once it settles
QuizOutcomes == {Rejects, Returns(<<"Question:", "w">>)}

InitQuiz ==
    /\ IdleCore
    /\ IdleGen
    /\ quizIn \in [chunks : QuizChunkLists, numQuestions : -1..MaxQuestions,
                   topic : {"", "Encryption", "Firewalls"}]
    /\ quizCalls = <<>>
    /\ quizOut = NoQuizOut
    /\ IdleHttp
    /\ IdleInstance
    /\ IdleChunker
    /\ IdleCite
    /\ IdleSan
    /\ IdleVs
    /\ IdleInit

\* generateQuiz up to its await: the chunks are selected and every helper
\* is called
generateQuiz_start ==
    /\ ~quizOut.started
    /\ \E shuffle \in Shuffles(quizIn.chunks, quizIn.topic) :
           LET selectedChunks ==
                   SelectedChunks(quizIn.chunks, quizIn.numQuestions,
                                  quizIn.topic, shuffle)
           IN  quizCalls' = [i \in 1..Len(selectedChunks) |->
                                IssuedCall(selectedChunks[i], i)]
    /\ quizOut' = [quizOut EXCEPT !.started = TRUE]
    /\ UNCHANGED <<chunks, searchOut, tutorOut, simIn, simOut, gradeReq,
                   llmReply, gradeResp, genIn, genOut, quizIn, httpVars,
                   instanceVars, chunkerVars, citeVars, sanVars, vsVars, initVars>>

\* the generator call of helper i settles and the helper resolves
GeneratorSettles(i) ==
    /\ ~quizCalls[i].settled
    /\ \E outcome \in QuizOutcomes :
           \E order \in Orders(quizCalls[i].type, outcome),
              isTrue \in Coins(quizCalls[i].type, outcome) :
               LET call == quizCalls[i]
               IN  quizCalls' =
                       [quizCalls EXCEPT ![i] =
                           [call EXCEPT
                                !.settled = TRUE,
                                !.failed = Caught(outcome),
                                !.question =
                                    generateQuestion(call.type, call.chunk,
                                                     call.idx, outcome, order,
                                                     isTrue)]]
    /\ UNCHANGED <<chunks, searchOut, tutorOut, simIn, simOut, gradeReq,
                   llmReply, gradeResp, genIn, genOut, quizIn, quizOut,
                   httpVars, instanceVars, chunkerVars, citeVars, sanVars, vsVars, initVars>>

\* Promise.all resolves and generateQuiz returns the questions
generateQuiz_complete ==
    /\ quizOut.started
    /\ ~quizOut.done
    /\ AllSettled(quizCalls)
    /\ quizOut' = [quizOut EXCEPT
                      !.done = TRUE,
                      !.questions = [i \in 1..Len(quizCalls) |->
                                        quizCalls[i].question]]
    /\ UNCHANGED <<chunks, searchOut, tutorOut, simIn, simOut, gradeReq,
                   llmReply, gradeResp, genIn, genOut, quizIn, quizCalls,
                   httpVars, instanceVars, chunkerVars, citeVars, sanVars, vsVars, initVars>>

SettleAny == \E i \in 1..Len(quizCalls) : GeneratorSettles(i)

NextQuiz == generateQuiz_start \/ SettleAny \/ generateQuiz_complete

SpecQuiz == InitQuiz /\ [][NextQuiz]_vars

----------------------------------------------------------------------------
(* sanitizeInput (lib/sanitize.ts).  A question is a sequence of tokens:   *)
(* a letter, a blank, the characters < > /, the word "script" and a        *)
(* control character that is no whitespace.                                *)

QuestionChars == {"q", " ", "<", ">", "/", "script", "CTRL"}

MAX_LEN == 500

\* the position where a match of <\s*\/\s*script\s*> that starts at c ends,
\* 0 when there is none
CloseTagEnd(s, c) ==
    LET slash == SkipWhitespace(s, c + 1)
        word == SkipWhitespace(s, slash + 1)
        end == SkipWhitespace(s, word + 1)
    IN  IF /\ s[c] = "<"
           /\ end <= Len(s)
           /\ s[slash] = "/" /\ s[word] = "script" /\ s[end] = ">"
        THEN end ELSE 0

\* the position where the match of <\s*script.*?>.*?<\s*\/\s*script\s*>
\* that starts at i ends, 0 when there is none: the lazy .*? stop at the
\* first > after which a closing tag follows, and at the first closing tag
ScriptEnd(s, i) ==
    IF ~(s[i] = "<" /\ SkipWhitespace(s, i + 1) <= Len(s)
         /\ s[SkipWhitespace(s, i + 1)] = "script")
    THEN 0
    ELSE LET word == SkipWhitespace(s, i + 1)
             closers == {c \in (word + 2)..Len(s) : CloseTagEnd(s, c) > 0}
             gts == {g \in (word + 1)..Len(s) :
                        s[g] = ">" /\ \E c \in closers : c > g}
         IN  IF gts = {} THEN 0
             ELSE CloseTagEnd(s, Least({c \in closers : c > Least(gts)}))

\* clean.replace(/<\s*script.*?>.*?<\s*\/\s*script\s*>/gi, "")
RECURSIVE RemoveScripts(_)
RemoveScripts(s) ==
    LET at == {i \in 1..Len(s) : ScriptEnd(s, i) > 0}
    IN  IF at = {} THEN s
        ELSE SubSeq(s, 1, Least(at) - 1)
                 \o RemoveScripts(SubSeq(s, ScriptEnd(s, Least(at)) + 1, Len(s)))

\* the position where the match of <[^>]+> that starts at i ends, 0 when
\* there is none: the first > after i, with something before it
TagEnd(s, i) ==
    LET gts == {g \in (i + 1)..Len(s) : s[g] = ">"}
    IN  IF s[i] = "<" /\ gts # {} /\ Least(gts) > i + 1 THEN Least(gts) ELSE 0

\* clean.replace(/<[^>]+>/g, "")
RECURSIVE RemoveTags(_)
RemoveTags(s) ==
    LET at == {i \in 1..Len(s) : TagEnd(s, i) > 0}
    IN  IF at = {} THEN s
        ELSE SubSeq(s, 1, Least(at) - 1)
                 \o RemoveTags(SubSeq(s, TagEnd(s, Least(at)) + 1, Len(s)))

\* clean.replace(/[\u0000-\u001F\u007F]/g, "")
RemoveControls(s) == SelectSeq(s, LAMBDA c : c # "CTRL")

\* clean.replace(/\s+/g, " ")
RECURSIVE CollapseWhitespace(_)
CollapseWhitespace(s) ==
    LET runs == {i \in 1..(Len(s) - 1) :
                    IsWhitespace(s[i]) /\ IsWhitespace(s[i + 1])}
    IN  IF runs = {} THEN s
        ELSE SubSeq(s, 1, Least(runs) - 1)
                 \o CollapseWhitespace(SubSeq(s, Least(runs) + 1, Len(s)))

\* the number of characters of a token, and of a string: clean.length
TokenWidth(c) == IF c = "script" THEN 6 ELSE 1

length(s) ==
    Len(s) + (TokenWidth("script") - 1)
                 * Cardinality({i \in 1..Len(s) : s[i] = "script"})

\* clean.slice(0, n): the whole tokens that fit, and of a word "script"
\* that is cut its first letters, which are letters like any other
sliceChars(s, n) ==
    LET words == {i \in 1..Len(s) : s[i] = "script"}
        upTo(k) == k + (TokenWidth("script") - 1)
                           * Cardinality({i \in words : i <= k})
        whole == Cardinality({k \in 1..Len(s) : upTo(k) <= n})
        cut == n - upTo(whole)
    IN  SubSeq(s, 1, whole)
            \o (IF whole < Len(s) THEN [i \in 1..cut |-> "q"] ELSE <<>>)

\* mutant: the input is not cut at MAX_LEN characters
Truncated_uncut(clean) == clean

\* if (clean.length > MAX_LEN) clean = clean.slice(0, MAX_LEN)
Truncated(clean) ==
    IF length(clean) > MAX_LEN THEN sliceChars(clean, MAX_LEN) ELSE clean

\* sanitizeInput of a value: a string or something else
sanitizeInput(text) ==
    IF text.type # "string" \/ text.chars = <<>> THEN <<>>
    ELSE LET trimmed == trim(text.chars)
             cut == Truncated(trimmed)
             noScripts == RemoveScripts(cut)
             noTags == RemoveTags(noScripts)
             noControls == RemoveControls(noTags)
         IN  CollapseWhitespace(noControls)

----------------------------------------------------------------------------
(* POST /api/tutor and POST /api/quiz.  A request is answered in one step; *)
(* what the embedding model, the generator and Math.random do during the   *)
(* request is chosen in that step.  A request whose generator call never   *)
(* settles is never answered.                                              *)

\* mutant: the question is checked after the agent has been called
BadRequest_afterAgent ==
    HttpResponse(400, {"agent"}, TutorResponse("none", <<>>, 0), <<>>, NoGrade)

\* the 400 responses, sent before anything is called
BadRequest ==
    HttpResponse(400, {}, TutorResponse("none", <<>>, 0), <<>>, NoGrade)

\* the response of the outer catch blocks
InternalServerError ==
    HttpResponse(500, {}, TutorResponse("none", <<>>, 0), <<>>, NoGrade)

\* mutant: a quiz on an empty store is an empty quiz
NoDocumentsFound_ok ==
    HttpResponse(200, {"store"}, TutorResponse("none", <<>>, 0), <<>>, NoGrade)

\* the response of the generate action when the store holds no chunk
NoDocumentsFound ==
    HttpResponse(404, {"store"}, TutorResponse("none", <<>>, 0), <<>>, NoGrade)

\* !rawQuestion || typeof rawQuestion !== "string"
MissingQuestion(rawQuestion) ==
    rawQuestion.type # "string" \/ rawQuestion.chars = <<>>

\* the calls answerQuestion made: the agent itself, the search once the
\* query was embedded, the generator
TutorCalls(out) ==
    {"agent"} \cup (IF out.embedding # <<>> THEN {"store"} ELSE {})
              \cup (IF out.llmCalled THEN {"generator"} ELSE {})

\* POST /api/tutor
POST_tutor(req, store, embedding, llmFails) ==
    IF ~req.bodyParses THEN InternalServerError
    ELSE IF MissingQuestion(req.question) THEN BadRequest
    ELSE IF sanitizeInput(req.question) = <<>> THEN BadRequest
    ELSE LET out == answerQuestion(store, embedding, req.maxResults, llmFails)
         IN  HttpResponse(200, TutorCalls(out), out.response, <<>>, NoGrade)

\* the topic words of the model in lower case
LowerCase(word) == IF word = "Encryption" THEN "encryption" ELSE word

\* getChunksByTopic: the chunks with the topic in a tag, in the content or
\* in the filename, ignoring case.  No word of the model is part of
\* another, so includes is equality.
getChunksByTopic(store, topic) ==
    SelectSeq(store,
              LAMBDA chunk :
                  \/ \E k \in 1..Len(chunk.metadata.topics) :
                         LowerCase(chunk.metadata.topics[k]) = LowerCase(topic)
                  \/ LowerCase(chunk.content) = LowerCase(topic)
                  \/ LowerCase(chunk.metadata.filename) = LowerCase(topic))

\* the DocumentChunk that the route builds from a stored chunk; the content
\* of the stored chunks of the model is one sentence
DocumentChunk(chunk) ==
    QuizChunk(chunk.chunkId, <<chunk.content>>, chunk.metadata.topics)

DefaultCount == 5

\* the questions one helper may resolve to
HelperResults(chunk, i) ==
    UNION {{generateQuestion(QuestionType(i - 1), chunk, i - 1, outcome,
                             order, isTrue) :
                order \in Orders(QuestionType(i - 1), outcome),
                isTrue \in Coins(QuestionType(i - 1), outcome)} :
           outcome \in QuizOutcomes}

\* the question lists generateQuiz may resolve to for the selected chunks
QuizResults(selectedChunks) ==
    LET n == Len(selectedChunks)
        any == UNION {HelperResults(selectedChunks[i], i) : i \in 1..n}
    IN  {questions \in [1..n -> any] :
            \A i \in 1..n : questions[i] \in HelperResults(selectedChunks[i], i)}

\* the chunks the generate action passes to generateQuiz
QuizData(store, topic) ==
    LET byTopic == getChunksByTopic(store, topic)
        found == IF topic # "" /\ topic # "all" /\ Len(byTopic) > 0
                 THEN byTopic ELSE store
    IN  [i \in 1..Len(found) |-> DocumentChunk(found[i])]

\* the topic the generate action passes to generateQuiz
QuizTopic(topic) == IF topic # "all" THEN topic ELSE ""

\* the grade action: gradeRoute, as a response
GradeResponse(graded) ==
    HttpResponse(graded.status,
                 IF graded.llmCalled THEN {"generator"} ELSE {},
                 TutorResponse("none", <<>>, 0), <<>>,
                 [hasScore |-> graded.hasScore, score |-> graded.score,
                  feedback |-> graded.feedback])

\* POST /api/quiz
POST_quiz(req, store, questions, reply) ==
    IF ~req.bodyParses THEN InternalServerError
    ELSE IF req.action = "generate"
    THEN IF Len(QuizData(store, req.topic)) = 0 THEN NoDocumentsFound
         ELSE HttpResponse(200,
                           IF Len(questions) > 0 THEN {"store", "generator"}
                           ELSE {"store"},
                           TutorResponse("none", <<>>, 0), questions, NoGrade)
    ELSE IF req.action = "grade" THEN GradeResponse(gradeRoute(req.grade, reply))
    ELSE BadRequest

\* the requests
Questions ==
    {Str(chars) : chars \in SeqsUpTo(QuestionChars, MaxQuestionLen)}
        \cup {Str(<<"<", "script", ">", "q", "<", "/", "script", ">">>),
              Str(<<"<", "q", ">", " ", "<", "/", "q", ">", "q">>),
              Undefined, Number}

NoGradeBody == [question |-> "", userAnswer |-> Undefined,
                correctAnswer |-> Undefined, questionType |-> ""]

TutorRequests ==
    [route : {"tutor"}, bodyParses : BOOLEAN, question : Questions,
     maxResults : {0, 1}, action : {""}, topic : {""}, count : {0},
     grade : {NoGradeBody}]

GenerateRequests ==
    [route : {"quiz"}, bodyParses : BOOLEAN, question : {Undefined},
     maxResults : {0}, action : {"generate"},
     topic : {"", "all", "Encryption", "encryption", "Firewalls"},
     count : -1..2, grade : {NoGradeBody}]

GradeRequests ==
    [route : {"quiz"}, bodyParses : {TRUE}, question : {Undefined},
     maxResults : {0}, action : {"grade", "export", ""}, topic : {""},
     count : {0},
     grade : [question : {"", "q"},
              userAnswer : {Undefined, Number, Str(<<"a">>)},
              correctAnswer : {Str(<<"a">>)},
              questionType : {"multiple-choice", "open-ended", "essay", ""}]]

\* the stores the requests meet: none, one or two chunks, and one with an
\* embedding of another length
HttpStores ==
    {<<>>, PushAll(<<>>, "d1", <<<<1, 0>>>>, 1),
     PushAll(<<>>, "d1", <<<<1, 0>>, <<0, 1>>>>, 1),
     PushAll(<<>>, "d1", <<<<1, 0>>, <<1>>>>, 1)}

InitHttp ==
    /\ chunks \in HttpStores
    /\ searchOut = NoSearch
    /\ tutorOut = NoTutor
    /\ simIn = <<<<>>, <<>>>>
    /\ simOut = NoSim
    /\ gradeReq = NoGradeReq
    /\ llmReply = NoReply
    /\ gradeResp = NoGradeResp
    /\ IdleGen
    /\ IdleQuiz
    /\ \/ httpReq \in TutorRequests
       \/ httpReq \in GenerateRequests
       \/ httpReq \in GradeRequests
    /\ httpResp = NoHttpResp
    /\ IdleInstance
    /\ IdleChunker
    /\ IdleCite
    /\ IdleSan
    /\ IdleVs
    /\ IdleInit

TutorRequestAnswered ==
    /\ httpReq.route = "tutor"
    /\ httpResp.status = 0
    /\ \E embedding \in {<<1, 0>>, <<0, 1>>, <<>>}, llmFails \in BOOLEAN :
           httpResp' = POST_tutor(httpReq, chunks, embedding, llmFails)
    /\ UNCHANGED <<chunks, searchOut, tutorOut, simIn, simOut, gradeReq,
                   llmReply, gradeResp, quizVars, httpReq, instanceVars,
                   chunkerVars, citeVars, sanVars, vsVars, initVars>>

\* a generate request is answered: the chunks are shuffled and every
\* helper resolves
GenerateRequestAnswered ==
    /\ httpReq.route = "quiz"
    /\ httpReq.action = "generate"
    /\ httpResp.status = 0
    /\ LET quizData == QuizData(chunks, httpReq.topic)
           numQuestions == IF httpReq.count = 0 THEN DefaultCount
                           ELSE httpReq.count
           topic == QuizTopic(httpReq.topic)
       IN  \E shuffle \in Shuffles(quizData, topic) :
               \E questions \in QuizResults(SelectedChunks(quizData,
                                                numQuestions, topic, shuffle)) :
                   httpResp' = POST_quiz(httpReq, chunks, questions, NoReply)
    /\ UNCHANGED <<chunks, searchOut, tutorOut, simIn, simOut, gradeReq,
                   llmReply, gradeResp, quizVars, httpReq, instanceVars,
                   chunkerVars, citeVars, sanVars, vsVars, initVars>>

\* a grade request, or one with another action, is answered
OtherQuizRequestAnswered ==
    /\ httpReq.route = "quiz"
    /\ httpReq.action # "generate"
    /\ httpResp.status = 0
    /\ \E reply \in {NoReply, [failed |-> FALSE, text |-> <<"Score:", "1">>]} :
           httpResp' = POST_quiz(httpReq, chunks, <<>>, reply)
    /\ UNCHANGED <<chunks, searchOut, tutorOut, simIn, simOut, gradeReq,
                   llmReply, gradeResp, quizVars, httpReq, instanceVars,
                   chunkerVars, citeVars, sanVars, vsVars, initVars>>

NextHttp ==
    TutorRequestAnswered \/ GenerateRequestAnswered \/ OtherQuizRequestAnswered

SpecHttp == InitHttp /\ [][NextHttp]_vars

----------------------------------------------------------------------------
(* ServerDocumentProcessor.createChunks (lib/document-processor.server.ts). *)
(* The text is the sequence of its words, which is what                     *)
(* content.split(/\s+/).filter(word => word.length > 0) returns; a word is  *)
(* named by its place in the text, so that no two words are equal.  A       *)
(* chunk is the sequence of its words and its chunkIndex; its random id     *)
(* and its character offsets are left out.                                  *)

CHUNK_SIZE == 500

CHUNK_OVERLAP == 50

\* the text of n words
Words(n) == [i \in 1..n |-> i]

\* Array.prototype.slice(start, end), both counted from 0
slice(arr, start, end) == SubSeq(arr, start + 1, Min(end, Len(arr)))

NextIndex_noOverlap(currentIndex) == currentIndex + CHUNK_SIZE

\* currentIndex += this.CHUNK_SIZE - this.CHUNK_OVERLAP
NextIndex(currentIndex) == currentIndex + CHUNK_SIZE - CHUNK_OVERLAP

\* the while loop of createChunks
RECURSIVE ChunkLoop(_, _, _)
ChunkLoop(words, currentIndex, made) ==
    IF currentIndex < Len(words)
    THEN ChunkLoop(words, NextIndex(currentIndex),
                   Append(made,
                          [content |-> slice(words, currentIndex,
                                             currentIndex + CHUNK_SIZE),
                           chunkIndex |-> Len(made)]))
    ELSE made

createChunks(words) == ChunkLoop(words, 0, <<>>)

InitChunker ==
    /\ IdleCore
    /\ IdleGen
    /\ IdleQuiz
    /\ IdleHttp
    /\ IdleInstance
    /\ IdleCite
    /\ IdleSan
    /\ IdleVs
    /\ IdleInit
    /\ docWords \in 0..MaxWords
    /\ docChunks = NoChunks

CreateChunks ==
    /\ ~docChunks.called
    /\ docChunks' = [called |-> TRUE, chunks |-> createChunks(Words(docWords))]
    /\ UNCHANGED <<chunks, searchOut, tutorOut, simIn, simOut, gradeReq,
                   llmReply, gradeResp, quizVars, httpVars, instanceVars,
                   docWords, citeVars, sanVars, vsVars, initVars>>

NextChunker == CreateChunks

SpecChunker == InitChunker /\ [][NextChunker]_vars

----------------------------------------------------------------------------
(* The shared instance (lib/vector-database-instance.ts) and addDocument    *)
(* (lib/vector-database.ts).  heap holds the chunks array of every          *)
(* VectorDatabase object created so far, and an object is named by its      *)
(* place in heap.  addDocument and the route handlers that read the store   *)
(* await getVectorDatabaseInstance(): the call itself runs at once, and the *)
(* caller goes on with the object it returned in a later step, after any    *)
(* other code that was ready to run.  resetVectorDatabaseInstance and       *)
(* VectorDatabase.add have no await and run in one step.  Two suspended     *)
(* calls with the same arguments and the same object are held once.         *)

\* ids of the documents given to addDocument
DocumentIds == {"d1", "d2"}

\* chunk.embedding || [] of a processed chunk: an embedding, or none
ChunkEmbeddings == {<<1, 0>>, <<>>}

\* the chunks of the documents given to addDocument, by their embeddings
ProcessedChunks == {<<e>> : e \in ChunkEmbeddings} \cup
                   {<<e, <<1, 0>>>> : e \in ChunkEmbeddings}

\* getVectorDatabaseInstance on global.vectorDbInstance = g: the objects
\* that exist afterwards and the object returned
getVectorDatabaseInstance(h, g) ==
    IF g = 0
    THEN [heap |-> Append(h, <<>>), ref |-> Len(h) + 1]
    ELSE [heap |-> h, ref |-> g]

\* mutant: no chunk is filtered out
validIndices_all(embeddings) == [i \in 1..Len(embeddings) |-> i]

\* the places of the embeddings that are not empty, in order
validIndices(embeddings) ==
    SelectSeq([i \in 1..Len(embeddings) |-> i],
              LAMBDA i : Len(embeddings[i]) > 0)

validEmbeddings(embeddings) ==
    [k \in 1..Len(validIndices(embeddings)) |->
        embeddings[validIndices(embeddings)[k]]]

\* the members of a sequence, each once, in the order they first appear
RECURSIVE Distinct(_)
Distinct(s) ==
    IF s = <<>> THEN <<>>
    ELSE LET front == Distinct(SubSeq(s, 1, Len(s) - 1))
         IN  IF \E i \in 1..Len(front) : front[i] = s[Len(s)]
             THEN front
             ELSE Append(front, s[Len(s)])

RECURSIVE AllTopics(_)
AllTopics(store) ==
    IF store = <<>> THEN <<>>
    ELSE store[1].metadata.topics \o AllTopics(Tail(store))

\* VectorDatabase.getStats
getStats(store) ==
    [totalDocuments |->
         Cardinality({store[i].documentId : i \in 1..Len(store)}),
     totalChunks |-> Len(store),
     topics |-> Distinct(AllTopics(store))]

\* a call suspended at its await of getVectorDatabaseInstance()
SuspendedCall(kind, ref, documentId, embeddings) ==
    [kind |-> kind, ref |-> ref, documentId |-> documentId,
     embeddings |-> embeddings]

\* what a reader got from the object it was given
StoreRead(ref, store) ==
    [called |-> TRUE, ref |-> ref, chunks |-> store, stats |-> getStats(store)]

InitInstance ==
    /\ IdleCore
    /\ IdleGen
    /\ IdleQuiz
    /\ IdleHttp
    /\ IdleInstance
    /\ IdleChunker
    /\ IdleCite
    /\ IdleSan
    /\ IdleVs
    /\ IdleInit

\* addDocument from line 37 on, with the chunks array of the object it was
\* given: the array afterwards, and the message of the Error the call is
\* rejected with ("" when it resolves).  It throws when no chunk has an
\* embedding, and else adds the chunks that have one.
addDocument(store, documentId, embeddings) ==
    LET valid == validEmbeddings(embeddings)
    IN  IF Len(valid) = 0
        THEN [store |-> store,
              error |-> "Failed to add document to vector database"]
        ELSE [store |-> PushAll(store, documentId, valid, 1), error |-> ""]

\* addDocument up to its await of getVectorDatabaseInstance()
addDocument_start(documentId, embeddings) ==
    LET got == getVectorDatabaseInstance(heap, globalRef)
    IN  /\ Len(got.heap) <= MaxObjects
        /\ Cardinality(inFlight) < MaxInFlight
        /\ heap' = got.heap
        /\ globalRef' = got.ref
        /\ inFlight' = inFlight \cup
               {SuspendedCall("addDocument", got.ref, documentId, embeddings)}
        /\ UNCHANGED addOut
        /\ UNCHANGED <<chunks, searchOut, tutorOut, simIn, simOut, gradeReq,
                       llmReply, gradeResp, quizVars, httpVars, storeObs,
                       chunkerVars, citeVars, sanVars, vsVars, initVars>>

\* the rest of addDocument, on the object the call was given
addDocument_finish(call) ==
    LET done == addDocument(heap[call.ref], call.documentId, call.embeddings)
    IN  /\ call.kind = "addDocument"
        /\ Len(done.store) <= MaxChunks
        /\ heap' = [heap EXCEPT ![call.ref] = done.store]
        /\ inFlight' = inFlight \ {call}
        /\ storeObs' = IF done.error = "" THEN NoStoreObs ELSE storeObs
        /\ UNCHANGED <<chunks, searchOut, tutorOut, simIn, simOut, gradeReq,
                       llmReply, gradeResp, quizVars, httpVars, globalRef,
                       addOut, chunkerVars, citeVars, sanVars, vsVars, initVars>>

\* a handler that reads the store, up to its await of
\* getVectorDatabaseInstance()
read_start ==
    LET got == getVectorDatabaseInstance(heap, globalRef)
    IN  /\ Len(got.heap) <= MaxObjects
        /\ Cardinality(inFlight) < MaxInFlight
        /\ heap' = got.heap
        /\ globalRef' = got.ref
        /\ inFlight' = inFlight \cup {SuspendedCall("read", got.ref, "", <<>>)}
        /\ UNCHANGED addOut
        /\ UNCHANGED <<chunks, searchOut, tutorOut, simIn, simOut, gradeReq,
                       llmReply, gradeResp, quizVars, httpVars, storeObs,
                       chunkerVars, citeVars, sanVars, vsVars, initVars>>

\* the handler calls getAllChunks and getStats on the object it was given
read_finish(call) ==
    /\ call.kind = "read"
    /\ storeObs' = StoreRead(call.ref, heap[call.ref])
    /\ UNCHANGED addOut
    /\ inFlight' = inFlight \ {call}
    /\ UNCHANGED <<chunks, searchOut, tutorOut, simIn, simOut, gradeReq,
                   llmReply, gradeResp, quizVars, httpVars, heap, globalRef,
                   chunkerVars, citeVars, sanVars, vsVars, initVars>>

resetVectorDatabaseInstance ==
    /\ heap' = IF globalRef # 0 THEN [heap EXCEPT ![globalRef] = <<>>]
               ELSE heap
    /\ globalRef' = 0
    /\ storeObs' = NoStoreObs
    /\ addOut' = NoAddOut
    /\ UNCHANGED <<chunks, searchOut, tutorOut, simIn, simOut, gradeReq,
                   llmReply, gradeResp, quizVars, httpVars, inFlight,
                   chunkerVars, citeVars, sanVars, vsVars, initVars>>

AddDocumentStarts ==
    \E documentId \in DocumentIds, embeddings \in ProcessedChunks :
        addDocument_start(documentId, embeddings)

AddDocumentFinishes == \E call \in inFlight : addDocument_finish(call)

ReadFinishes == \E call \in inFlight : read_finish(call)

NextInstance ==
    \/ AddDocumentStarts
    \/ AddDocumentFinishes
    \/ read_start
    \/ ReadFinishes
    \/ resetVectorDatabaseInstance

SpecInstance == InitInstance /\ [][NextInstance]_vars

----------------------------------------------------------------------------
(* addDocument on its own: calls that run from start to end with nothing   *)
(* else in between, on documents whose chunks differ in their embeddings,   *)
(* and resets between them.                                                 *)

\* the chunks of the documents, by their embeddings: <<1, 0>>, <<0, 1>> or none
DocumentEmbeddings == SeqsUpTo({<<1, 0>>, <<0, 1>>, <<>>}, MaxChunks)

AddDocumentCall(documentId, embeddings) ==
    LET got == getVectorDatabaseInstance(heap, globalRef)
        done == addDocument(got.heap[got.ref], documentId, embeddings)
    IN  /\ Len(got.heap) <= MaxObjects
        /\ Len(done.store) <= MaxChunks
        /\ heap' = [got.heap EXCEPT ![got.ref] = done.store]
        /\ globalRef' = got.ref
        /\ addOut' = [called |-> TRUE, ref |-> got.ref,
                      documentId |-> documentId, embeddings |-> embeddings,
                      before |-> got.heap[got.ref], error |-> done.error]
        /\ UNCHANGED <<chunks, searchOut, tutorOut, simIn, simOut, gradeReq,
                       llmReply, gradeResp, quizVars, httpVars, inFlight,
                       storeObs, chunkerVars, citeVars, sanVars, vsVars, initVars>>

AddDocumentCalls ==
    \E documentId \in DocumentIds, embeddings \in DocumentEmbeddings :
        AddDocumentCall(documentId, embeddings)

NextAddDocument == AddDocumentCalls \/ resetVectorDatabaseInstance

SpecAddDocument == InitInstance /\ [][NextAddDocument]_vars

----------------------------------------------------------------------------
(* TutorAgent.extractCitations on its own: the results are drawn in the     *)
(* initial state and one step applies the function.  The result at rank i  *)
(* has similarity sqrt(1 / i), so that the results are in the order search  *)
(* returns them and all pass the floor of 0.3.                              *)

\* the sources of the results: a filename and a page number (0: none)
Sources == {"a.pdf", "b.pdf"} \X {0, 1, 2}

\* the result at rank i, as far as extractCitations reads it
RankedResult(source, i) ==
    [similarity |-> [sgn |-> 1, n |-> 1, d |-> i],
     metadata |-> [filename |-> source[1], pageNumber |-> source[2]]]

ResultLists ==
    {[i \in 1..Len(s) |-> RankedResult(s[i], i)] :
        s \in SeqsUpTo(Sources, MaxCited)}

InitCitations ==
    /\ IdleCore
    /\ IdleGen
    /\ IdleQuiz
    /\ IdleHttp
    /\ IdleInstance
    /\ IdleChunker
    /\ IdleSan
    /\ IdleVs
    /\ IdleInit
    /\ citeIn \in ResultLists
    /\ citeOut = NoCitations

ExtractCitations ==
    /\ ~citeOut.called
    /\ citeOut' = [called |-> TRUE, citations |-> extractCitations(citeIn)]
    /\ UNCHANGED <<chunks, searchOut, tutorOut, simIn, simOut, gradeReq,
                   llmReply, gradeResp, quizVars, httpVars, instanceVars,
                   chunkerVars, citeIn, sanVars, vsVars, initVars>>

NextCitations == ExtractCitations

SpecCitations == InitCitations /\ [][NextCitations]_vars

----------------------------------------------------------------------------
(* sanitizeInput on its own: a value that is no string, or a string made   *)
(* of an optional "<", a run of letters that brings it near MAX_LEN        *)
(* characters or over, and a few characters of any kind.                   *)

\* a run of n letters
Letters(n) == [i \in 1..n |-> "q"]

\* the lengths of the runs: none, and what lets the last characters fall
\* on either side of MAX_LEN
RunLengths ==
    {0, MAX_LEN - 6, MAX_LEN - 3, MAX_LEN - 2, MAX_LEN - 1, MAX_LEN}

SanitizeInputs ==
    {Undefined, Number}
        \cup {Str(head \o Letters(n) \o tail) :
                 head \in {<<>>, <<"<">>}, n \in RunLengths,
                 tail \in SeqsUpTo(QuestionChars, MaxTailLen)}

InitSanitize ==
    /\ IdleCore
    /\ IdleGen
    /\ IdleQuiz
    /\ IdleHttp
    /\ IdleInstance
    /\ IdleChunker
    /\ IdleCite
    /\ IdleVs
    /\ IdleInit
    /\ sanIn \in SanitizeInputs
    /\ sanOut = NoSanitized

SanitizeInput ==
    /\ ~sanOut.called
    /\ sanOut' = [called |-> TRUE, clean |-> sanitizeInput(sanIn)]
    /\ UNCHANGED <<chunks, searchOut, tutorOut, simIn, simOut, gradeReq,
                   llmReply, gradeResp, quizVars, httpVars, instanceVars,
                   chunkerVars, citeVars, sanIn, vsVars, initVars>>

NextSanitize == SanitizeInput

SpecSanitize == InitSanitize /\ [][NextSanitize]_vars

----------------------------------------------------------------------------
(* The vector-search handler (pages/api/vector-search.ts).  The handler    *)
(* spawns a child process, arms a timer and returns; the timer and the     *)
(* events of the child run their callbacks later, in any order the event   *)
(* loop allows.  The child writes pieces of text: a complete JSON document *)
(* or something else.  A call of res.status(..).json(..) sends the         *)
(* response when none was sent for the request; when one was sent it       *)
(* throws ERR_HTTP_HEADERS_SENT in the callback that made it.              *)

VsRequests ==
    [method : {"POST", "GET"}, question : BOOLEAN, context : BOOLEAN]

\* what a data event carries
Pieces == {"json", "x"}

\* the exit code given to the close listener, written as JSON: null when
\* a signal ended the child
ExitCodes == {"0", "1", "null"}

\* res.status(status).json(body) after the calls made so far
json(calls, status, error) ==
    Append(calls, [status |-> status, error |-> error,
                   threw |-> calls # <<>>])

\* JSON.parse(output) succeeds
Parses(out) == out = <<"json">>

InitVectorSearch ==
    /\ IdleCore
    /\ IdleGen
    /\ IdleQuiz
    /\ IdleHttp
    /\ IdleInstance
    /\ IdleChunker
    /\ IdleCite
    /\ IdleSan
    /\ IdleInit
    /\ vsReq \in VsRequests
    /\ vsPc = "called"
    /\ pythonProcess = "none"
    /\ timeout = "none"
    /\ output = <<>>
    /\ resCalls = <<>>

\* handler, lines 21-67, up to its return
handler ==
    /\ vsPc = "called"
    /\ vsPc' = "returned"
    /\ IF vsReq.method # "POST"
       THEN /\ resCalls' = json(resCalls, 405, "Method not allowed")
            /\ UNCHANGED <<pythonProcess, timeout>>
       ELSE IF ~vsReq.question \/ ~vsReq.context
       THEN /\ resCalls' = json(resCalls, 400, "Missing question or context")
            /\ UNCHANGED <<pythonProcess, timeout>>
       ELSE /\ pythonProcess' = "running"
            /\ timeout' = "armed"
            /\ UNCHANGED resCalls
    /\ UNCHANGED <<chunks, searchOut, tutorOut, simIn, simOut, gradeReq,
                   llmReply, gradeResp, quizVars, httpVars, instanceVars,
                   chunkerVars, citeVars, sanVars, initVars, vsReq, output>>

\* the callback of setTimeout, lines 37-40
timeout_fires ==
    /\ timeout = "armed"
    /\ timeout' = "fired"
    /\ pythonProcess' = IF pythonProcess = "running" THEN "killed"
                        ELSE pythonProcess
    /\ resCalls' = json(resCalls, 500, "Python process timed out")
    /\ UNCHANGED <<chunks, searchOut, tutorOut, simIn, simOut, gradeReq,
                   llmReply, gradeResp, quizVars, httpVars, instanceVars,
                   chunkerVars, citeVars, sanVars, initVars, vsReq, vsPc, output>>

\* the listener of stdout 'data', lines 42-44
stdout_data(data) ==
    /\ pythonProcess \in {"running", "killed"}
    /\ Len(output) < MaxData
    /\ output' = Append(output, data)
    /\ UNCHANGED <<chunks, searchOut, tutorOut, simIn, simOut, gradeReq,
                   llmReply, gradeResp, quizVars, httpVars, instanceVars,
                   chunkerVars, citeVars, sanVars, initVars, vsReq, vsPc,
                   pythonProcess, timeout, resCalls>>

\* the listener of 'close', lines 51-63.  A child that was not killed
\* exits with a code; a killed one closes with code null, or with a code
\* when it had exited before the signal reached it.
close(code) ==
    /\ pythonProcess \in {"running", "killed"}
    /\ code = "null" => pythonProcess = "killed"
    /\ pythonProcess' = "closed"
    /\ timeout' = IF timeout = "armed" THEN "cleared" ELSE timeout
    /\ resCalls' =
           IF code = "0"
           THEN IF Parses(output) THEN json(resCalls, 200, "")
                ELSE json(resCalls, 500, "Failed to parse Python response")
           ELSE json(resCalls, 500, "Python script exited with code")
    /\ UNCHANGED <<chunks, searchOut, tutorOut, simIn, simOut, gradeReq,
                   llmReply, gradeResp, quizVars, httpVars, instanceVars,
                   chunkerVars, citeVars, sanVars, initVars, vsReq, vsPc, output>>

StdoutData == \E data \in Pieces : stdout_data(data)

Close == \E code \in ExitCodes : close(code)

NextVectorSearch == handler \/ timeout_fires \/ StdoutData \/ Close

SpecVectorSearch == InitVectorSearch /\ [][NextVectorSearch]_vars

----------------------------------------------------------------------------
(* GET and POST /api/init (app/api/init/route.ts).  A POST runs until an   *)
(* await and goes on later: it acquires the instance (line 15), checks the *)
(* stats and awaits the imports (18-32), then handles one file at each     *)
(* step (43-61), the response following the last file at once (63-73).     *)
(* Other requests run in between.  For each file processDocument rejects   *)
(* or resolves to chunks with their embeddings, under a fresh id.  The     *)
(* public directory holds the same files throughout, and the instance is   *)
(* not reset while requests run.                                           *)

\* fs.readdirSync(PUBLIC_DIR).filter(f => f.endsWith('.pdf'))
pdfFiles == <<"a.pdf", "b.pdf">>

\* what processDocument does for a file: it rejects, or resolves to chunks
\* whose embeddings are these
ProcessOutcomes ==
    {[rejects |-> TRUE, embeddings |-> <<>>]}
        \cup {[rejects |-> FALSE, embeddings |-> e] :
                 e \in {<<<<1, 0>>>>, <<<<>>>>}}

\* generateId() of the document of the k-th file of request r
generateId(r, k) == <<"id", r, k>>

InitResponse(success, message, stats, processed, failed) ==
    [sent |-> TRUE, success |-> success, message |-> message,
     stats |-> stats, processed |-> processed, failed |-> failed]

NoResponse ==
    [sent |-> FALSE, success |-> FALSE, message |-> "", stats |-> <<>>,
     processed |-> 0, failed |-> 0]

\* a POST request suspended at line 15, on the object it was given
InitCall(ref) ==
    [pc |-> "check", vectorDb |-> ref, file |-> 0,
     processedCount |-> 0, failedCount |-> 0, response |-> NoResponse]

\* mutant: the files are processed whatever the store holds
AlreadyInitialized_never(stats) == FALSE

\* line 19: stats.totalChunks > 0
AlreadyInitialized(stats) == stats.totalChunks > 0

\* line 94: initialized: stats.totalChunks > 0
Initialized(stats) == stats.totalChunks > 0

\* the store after addDocument put the chunks of a file into it: the
\* metadata of the chunks carry the filename
WithFilename(before, after, filename) ==
    [i \in 1..Len(after) |->
        IF i <= Len(before) THEN after[i]
        ELSE [after[i] EXCEPT !.metadata.filename = filename]]

\* lines 63-73
Initialized_response(store, processedCount, failedCount) ==
    InitResponse(TRUE, "Vector database initialized successfully",
                 getStats(store), processedCount, failedCount)

InitInit ==
    /\ IdleCore
    /\ IdleGen
    /\ IdleQuiz
    /\ IdleHttp
    /\ IdleInstance
    /\ IdleChunker
    /\ IdleCite
    /\ IdleSan
    /\ IdleVs
    /\ initCalls = <<>>
    /\ statusObs = NoStatus

\* POST, lines 10-15: up to the await of getVectorDatabaseInstance()
POST_init ==
    LET got == getVectorDatabaseInstance(heap, globalRef)
    IN  /\ Len(initCalls) < MaxPosts
        /\ heap' = got.heap
        /\ globalRef' = got.ref
        /\ initCalls' = Append(initCalls, InitCall(got.ref))
        /\ UNCHANGED <<chunks, searchOut, tutorOut, simIn, simOut, gradeReq,
                       llmReply, gradeResp, quizVars, httpVars, inFlight,
                       storeObs, addOut, chunkerVars, citeVars, sanVars,
                       vsVars, statusObs>>

\* POST, lines 18-32: the check, up to the awaits of the imports
POST_check(r) ==
    LET call == initCalls[r]
        stats == getStats(heap[call.vectorDb])
    IN  /\ call.pc = "check"
        /\ initCalls' =
               [initCalls EXCEPT ![r] =
                   IF AlreadyInitialized(stats)
                   THEN [call EXCEPT
                            !.pc = "done",
                            !.response =
                                InitResponse(TRUE,
                                    "Vector database already initialized",
                                    stats, 0, 0)]
                   ELSE [call EXCEPT !.pc = "files", !.file = 1]]
        /\ UNCHANGED <<chunks, searchOut, tutorOut, simIn, simOut, gradeReq,
                       llmReply, gradeResp, quizVars, httpVars, instanceVars,
                       chunkerVars, citeVars, sanVars, vsVars, statusObs>>

\* POST, lines 43-61 for one file, and lines 63-73 after the last one.
\* addDocument acquires the instance itself (vector-database.ts:35); the
\* stats of the response are read from the object of line 15.
POST_file(r, outcome) ==
    LET call == initCalls[r]
        filename == pdfFiles[call.file]
        got == getVectorDatabaseInstance(heap, globalRef)
        before == got.heap[got.ref]
        done == IF outcome.rejects
                THEN [store |-> before, error |-> "rejects"]
                ELSE addDocument(before, generateId(r, call.file),
                                 outcome.embeddings)
        store == WithFilename(before, done.store, filename)
        stored == [got.heap EXCEPT ![got.ref] = store]
        processedCount ==
            call.processedCount + (IF done.error = "" THEN 1 ELSE 0)
        failedCount == call.failedCount + (IF done.error = "" THEN 0 ELSE 1)
        counted == [call EXCEPT !.processedCount = processedCount,
                                !.failedCount = failedCount]
    IN  /\ call.pc = "files"
        /\ heap' = stored
        /\ globalRef' = got.ref
        /\ initCalls' =
               [initCalls EXCEPT ![r] =
                   IF call.file < Len(pdfFiles)
                   THEN [counted EXCEPT !.file = call.file + 1]
                   ELSE [counted EXCEPT
                            !.pc = "done",
                            !.response =
                                Initialized_response(stored[call.vectorDb],
                                    processedCount, failedCount)]]
        /\ UNCHANGED <<chunks, searchOut, tutorOut, simIn, simOut, gradeReq,
                       llmReply, gradeResp, quizVars, httpVars, inFlight,
                       storeObs, addOut, chunkerVars, citeVars, sanVars,
                       vsVars, statusObs>>

\* GET, lines 87-96
GET_init ==
    LET got == getVectorDatabaseInstance(heap, globalRef)
        stats == getStats(got.heap[got.ref])
    IN  /\ ~statusObs.called
        /\ heap' = got.heap
        /\ globalRef' = got.ref
        /\ statusObs' = [called |-> TRUE, store |-> got.heap[got.ref],
                         success |-> TRUE,
                         initialized |-> Initialized(stats), stats |-> stats]
        /\ UNCHANGED <<chunks, searchOut, tutorOut, simIn, simOut, gradeReq,
                       llmReply, gradeResp, quizVars, httpVars, inFlight,
                       storeObs, addOut, chunkerVars, citeVars, sanVars,
                       vsVars, initCalls>>

PostChecks == \E r \in 1..Len(initCalls) : POST_check(r)

PostFiles ==
    \E r \in 1..Len(initCalls), outcome \in ProcessOutcomes :
        POST_file(r, outcome)

NextInit == POST_init \/ PostChecks \/ PostFiles \/ GET_init

SpecInit == InitInit /\ [][NextInit]_vars

----------------------------------------------------------------------------
(* Properties of search *)

\* the similarity of the query of the observed search with stored chunk i
StoredSimilarity(i) ==
    cosineSimilarity(searchOut.queryEmbedding, chunks[i].embedding).value

\* search has returned normally
SearchReturned == searchOut.called /\ ~searchOut.threw

\* positions in the store of the chunks that were returned
ReturnedRefs == {searchOut.results[j].ref : j \in 1..Len(searchOut.results)}

\* C1: for every store content, query vector and positive K, a search that
\* returns holds at most K results.
C1_AtMostK ==
    (SearchReturned /\ searchOut.topK > 0)
        => Len(searchOut.results) <= searchOut.topK

\* a store with more chunks than K was searched and K results came back
C1_Witness ==
    /\ SearchReturned
    /\ searchOut.topK > 0
    /\ Len(chunks) > searchOut.topK
    /\ Len(searchOut.results) = searchOut.topK

\* C3: for a store of N chunks and a positive K, a search that returns holds
\* exactly min(K, N) results, each built from a distinct stored chunk with
\* that chunk's similarity, in non-increasing order of similarity, and no
\* chunk left out is strictly more similar than a returned one.
C3_TopK ==
    (SearchReturned /\ searchOut.topK > 0) =>
        LET res == searchOut.results
        IN  /\ Len(res) = Min(searchOut.topK, Len(chunks))
            /\ \A j \in 1..Len(res) :
                   /\ res[j].ref \in 1..Len(chunks)
                   /\ res[j].chunkId = chunks[res[j].ref].chunkId
                   /\ res[j].similarity = StoredSimilarity(res[j].ref)
            /\ \A j, k \in 1..Len(res) : j # k => res[j].ref # res[k].ref
            /\ \A j \in 1..(Len(res) - 1) :
                   SimCmp(res[j].similarity, res[j + 1].similarity) >= 0
            /\ \A i \in (1..Len(chunks)) \ ReturnedRefs :
                   \A j \in 1..Len(res) :
                       SimCmp(StoredSimilarity(i), res[j].similarity) <= 0

\* the more similar of two chunks was stored second and is returned alone
C3_Witness ==
    /\ SearchReturned
    /\ searchOut.topK = 1
    /\ Len(chunks) = 2
    /\ Len(searchOut.results) = 1
    /\ searchOut.results[1].ref = 2
    /\ SimCmp(StoredSimilarity(1), StoredSimilarity(2)) < 0

\* C4: on an empty store search returns the empty list and raises nothing,
\* for every query vector and every K.
C4_EmptyStore ==
    (searchOut.called /\ Len(chunks) = 0)
        => (~searchOut.threw /\ searchOut.results = <<>>)

\* the empty store was searched
C4_Witness ==
    /\ searchOut.called
    /\ Len(chunks) = 0
    /\ searchOut.results = <<>>
    /\ ~searchOut.threw

\* some stored embedding has another length than the query
SomeLengthDiffers ==
    \E i \in 1..Len(chunks) :
        Len(chunks[i].embedding) # Len(searchOut.queryEmbedding)

\* C5: a similarity computation between vectors of different lengths raises
\* and yields no score: a search of a store holding an embedding whose
\* length differs from the query's raises and returns no result, and a
\* search raises only then.
C5_LengthMismatchRaises ==
    searchOut.called =>
        /\ SomeLengthDiffers => (searchOut.threw /\ searchOut.results = <<>>)
        /\ searchOut.threw => SomeLengthDiffers

\* a query shorter than a stored embedding made the search raise
C5_Witness ==
    /\ searchOut.called
    /\ searchOut.threw
    /\ \E i \in 1..Len(chunks) :
           Len(chunks[i].embedding) > Len(searchOut.queryEmbedding)

\* C7: of two stored chunks with equal similarity to the query the one
\* added earlier is ranked first, and when only one of them is returned it
\* is the earlier one.
C7_TiesByInsertionOrder ==
    SearchReturned =>
        LET res == searchOut.results
        IN  /\ \A j, k \in 1..Len(res) :
                   (j < k /\ SimCmp(res[j].similarity, res[k].similarity) = 0)
                       => res[j].ref < res[k].ref
            /\ \A i \in (1..Len(chunks)) \ ReturnedRefs :
                   \A j \in 1..Len(res) :
                       SimCmp(StoredSimilarity(i), res[j].similarity) = 0
                           => res[j].ref < i

\* two equally similar chunks, of which only the first stored is returned
C7_Witness ==
    /\ SearchReturned
    /\ Len(chunks) = 2
    /\ searchOut.topK = 1
    /\ SimCmp(StoredSimilarity(1), StoredSimilarity(2)) = 0
    /\ chunks[1].embedding # chunks[2].embedding
    /\ Len(searchOut.results) = 1
    /\ searchOut.results[1].ref = 1

----------------------------------------------------------------------------
(* Properties of cosineSimilarity *)

IsZeroVector(v) == \A i \in 1..Len(v) : v[i] = 0

Negated(v) == [i \in 1..Len(v) |-> -v[i]]

\* C6: with equal lengths and a zero-magnitude argument the similarity is 0
\* and nothing is raised.
C6_ZeroMagnitude ==
    (/\ simOut.called
     /\ Len(simIn[1]) = Len(simIn[2])
     /\ (IsZeroVector(simIn[1]) \/ IsZeroVector(simIn[2])))
        => (~simOut.threw /\ simOut.value = SimZero)

\* a non-zero vector was compared with the zero vector
C6_Witness ==
    /\ simOut.called
    /\ simIn[1] = <<1, 2>>
    /\ simIn[2] = <<0, 0>>
    /\ simOut.value = SimZero

\* C8 as stated: for all vectors a, similarity(a, a) = 1 and
\* similarity(a, -a) = -1.
C8_Original ==
    simOut.called =>
        /\ simIn[2] = simIn[1] => simOut.value = SimOne
        /\ simIn[2] = Negated(simIn[1]) => simOut.value = SimMinusOne

\* C8 amended: for all vectors a of non-zero magnitude, similarity(a, a) = 1
\* and similarity(a, -a) = -1.
C8_SelfAndNegation ==
    (simOut.called /\ ~IsZeroVector(simIn[1])) =>
        /\ simIn[2] = simIn[1] => simOut.value = SimOne
        /\ simIn[2] = Negated(simIn[1]) => simOut.value = SimMinusOne

\* a vector of magnitude other than 1 was compared with its negation
C8_Witness ==
    /\ simOut.called
    /\ simIn[1] = <<1, -2>>
    /\ simIn[2] = <<-1, 2>>
    /\ simOut.value = SimMinusOne

----------------------------------------------------------------------------
(* Properties of grading *)

\* a closed-form grade request with a question and two string answers was
\* answered
ClosedFormGraded ==
    /\ gradeResp.status # 0
    /\ ClosedForm(gradeReq.questionType)
    /\ gradeReq.question # ""
    /\ gradeReq.userAnswer.type = "string"
    /\ gradeReq.correctAnswer.type = "string"

SameLetter(c, d) == c = d \/ {c, d} = {"a", "A"}

\* the same string up to letter case
SameIgnoringCase(x, y) ==
    Len(x) = Len(y) /\ \A i \in 1..Len(x) : SameLetter(x[i], y[i])

\* x is core with blanks before and after it, and core has no blank at
\* either end
IsPaddingOf(x, core) ==
    /\ core = <<>> \/ (core[1] # " " /\ core[Len(core)] # " ")
    /\ \E before \in 0..Len(x) :
           /\ before + Len(core) <= Len(x)
           /\ SubSeq(x, before + 1, before + Len(core)) = core
           /\ \A i \in 1..Len(x) :
                  (i <= before \/ i > before + Len(core)) => x[i] = " "

\* the same string up to letter case and to blanks at the ends
SameIgnoringCaseAndPadding(x, y) ==
    \E cx, cy \in Strings :
        IsPaddingOf(x, cx) /\ IsPaddingOf(y, cy) /\ SameIgnoringCase(cx, cy)

\* C9 as stated: a closed-form answer scores 100 when it equals the correct
\* answer ignoring letter case, 0 when it is not the same string ignoring
\* letter case, and nothing else.
C9_Original ==
    ClosedFormGraded =>
        LET same == SameIgnoringCase(gradeReq.userAnswer.chars,
                                     gradeReq.correctAnswer.chars)
        IN  /\ gradeResp.hasScore
            /\ same => gradeResp.score = 100
            /\ ~same => gradeResp.score = 0

\* C9 amended: a closed-form answer scores 100 when it equals the correct
\* answer ignoring letter case and leading and trailing whitespace, and 0
\* otherwise; no other score is produced.
C9_ClosedFormScore ==
    ClosedFormGraded =>
        LET same == SameIgnoringCaseAndPadding(gradeReq.userAnswer.chars,
                                               gradeReq.correctAnswer.chars)
        IN  /\ gradeResp.status = 200
            /\ gradeResp.hasScore
            /\ gradeResp.isCorrect = same
            /\ same => gradeResp.score = 100
            /\ ~same => gradeResp.score = 0

\* an answer that differs from the correct one in case and by a trailing
\* blank got 100
C9_Witness ==
    /\ ClosedFormGraded
    /\ gradeReq.userAnswer.chars = <<"A", " ">>
    /\ gradeReq.correctAnswer.chars = <<"a">>
    /\ gradeResp.score = 100

\* the generator was called for an open-ended answer and returned a text
OpenEndedGraded ==
    /\ gradeResp.status # 0
    /\ gradeResp.llmCalled
    /\ ~llmReply.failed

\* the text holds "Score:", optional blanks and a digit
HasScoreField(text) ==
    \E i, j \in 1..Len(text) :
        /\ i < j
        /\ IsScoreWord(text[i])
        /\ IsDigit(text[j])
        /\ \A k \in (i + 1)..(j - 1) : text[k] = " "

\* the text holds "Feedback:" followed by something
HasFeedbackField(text) ==
    \E i \in 1..(Len(text) - 1) : IsFeedbackWord(text[i])

\* C10 as stated: when the generator's text is not in the format
\* "Score: .. Feedback: ..", the score is 50 and the feedback is the text.
C10_Original ==
    (OpenEndedGraded
     /\ ~(HasScoreField(llmReply.text) /\ HasFeedbackField(llmReply.text)))
        => (gradeResp.score = 50 /\ gradeResp.feedback = llmReply.text)

\* C10 amended: the two fields fall back separately.  Without a score field
\* the score is 50, without a feedback field the feedback is the text; so a
\* text with neither field is graded 50 with the text as feedback.
C10_ParseFallback ==
    OpenEndedGraded =>
        /\ ~HasScoreField(llmReply.text) => gradeResp.score = 50
        /\ ~HasFeedbackField(llmReply.text)
               => gradeResp.feedback = llmReply.text

\* a text with neither field was graded 50 with the text as feedback
C10_Witness ==
    /\ OpenEndedGraded
    /\ llmReply.text = <<"x", " ", "1">>
    /\ gradeResp.score = 50
    /\ gradeResp.feedback = llmReply.text

----------------------------------------------------------------------------
(* Properties of the similarity floor *)

\* similarity >= 0.3, that is similarity > 0 and similarity^2 >= 9/100
AtLeastFloor(sim) == sim.sgn = 1 /\ 100 * sim.n >= 9 * sim.d

\* C2 as stated: every result returned by VectorDatabase.search has
\* similarity >= 0.3.
C2_Original ==
    tutorOut.called =>
        \A j \in 1..Len(tutorOut.searchResults) :
            AtLeastFloor(tutorOut.searchResults[j].similarity)

\* C2 amended: the floor is applied by TutorAgent.answerQuestion to what
\* search returned: every result it keeps (and builds its context from) has
\* similarity >= 0.3, and it keeps every returned result that has.
C2_FloorInTutor ==
    tutorOut.called =>
        LET kept == tutorOut.relevantResults
            found == tutorOut.searchResults
        IN  /\ \A j \in 1..Len(kept) :
                   /\ AtLeastFloor(kept[j].similarity)
                   /\ \E k \in 1..Len(found) : found[k] = kept[j]
            /\ Len(tutorOut.contextChunks) = Len(kept)
            /\ tutorOut.llmCalled =>
                   \A k \in 1..Len(found) :
                       AtLeastFloor(found[k].similarity)
                           => \E j \in 1..Len(kept) : kept[j] = found[k]

\* search returned a result between 0 and 0.3, and the tutor dropped it and
\* kept another
C2_Witness ==
    /\ tutorOut.called
    /\ Len(tutorOut.searchResults) = 2
    /\ Len(tutorOut.relevantResults) = 1
    /\ \E k \in 1..2 :
           /\ tutorOut.searchResults[k].similarity.sgn = 1
           /\ ~AtLeastFloor(tutorOut.searchResults[k].similarity)

----------------------------------------------------------------------------
(* Properties of the question helpers *)

\* the generator returned a text in which no "Question:" is followed by
\* the rest of a line, so that the question cannot be recovered from it
NoQuestionLine(outcome) ==
    /\ outcome.kind = "text"
    /\ ~\E i, j \in 1..Len(outcome.text) :
           i < j /\ outcome.text[i] = "Question:" /\ outcome.text[j] # "NL"

\* what each helper puts before the sentence in its catch block
SentencePrefix(type) ==
    CASE type = "multiple-choice" -> <<>>
      [] type = "true-false" -> <<"True or False: ">>
      [] OTHER -> <<"Explain: ">>

\* the fixed question of each helper for a text without a question line
Placeholder(type) ==
    CASE type = "multiple-choice" -> <<"Generated question">>
      [] type = "true-false" -> <<"Generated true/false question">>
      [] OTHER -> <<"Generated open-ended question">>

\* the question is made of the first sentence of the chunk
DerivedFromChunk ==
    genOut.question.question
        = SentencePrefix(genIn.type) \o FirstSentence(genIn.chunk.content)

----------------------------------------------------------------------------
(* Properties of the tutor's error handling *)

\* a step of the answered question failed: the query could not be embedded,
\* the search met a stored embedding of another length than the query's, or
\* the generator call failed
TutorStepFailed ==
    \/ tutorOut.embedding = <<>>
    \/ \E i \in 1..Len(chunks) :
           Len(chunks[i].embedding) # Len(tutorOut.embedding)
    \/ tutorOut.llmFailed

\* C12: answerQuestion never propagates a failure: whenever the embedding
\* of the query, the search of the store or the generator call fails, it
\* still returns a response, with no citation and confidence 0.
C12_FailuresCaught ==
    tutorOut.called =>
        /\ ~tutorOut.threw
        /\ tutorOut.response.answer # "none"
        /\ TutorStepFailed =>
               /\ tutorOut.response.citations = <<>>
               /\ tutorOut.response.confidence = 0

\* a search that raised on a vector-length mismatch was answered with the
\* error response
C12_Witness ==
    /\ tutorOut.called
    /\ tutorOut.embedding = <<1>>
    /\ Len(chunks) > 0
    /\ tutorOut.response = TutorResponse("error", <<>>, 0)

----------------------------------------------------------------------------
(* Properties of generateQuiz *)

\* the ids of the candidate chunks that generateQuiz draws from: those
\* tagged with the topic, or all of them when no topic is given or none is
\* tagged with it
CandidateIds ==
    LET all == {quizIn.chunks[i].id : i \in 1..Len(quizIn.chunks)}
        tagged == {quizIn.chunks[i].id :
                      i \in {j \in 1..Len(quizIn.chunks) :
                                \E k \in 1..Len(quizIn.chunks[j].topics) :
                                    quizIn.chunks[j].topics[k] = quizIn.topic}}
    IN  IF quizIn.topic = "" \/ tagged = {} THEN all ELSE tagged

\* generateQuiz has returned for a non-empty list of chunks
QuizReturned == quizOut.done /\ Len(quizIn.chunks) > 0

\* every question is built from a candidate chunk, no two from the same,
\* and the types cycle
FromDistinctChunks(questions) ==
    /\ \A i \in 1..Len(questions) :
           /\ questions[i].id[2] \in CandidateIds
           /\ questions[i].id[3] = i - 1
           /\ questions[i].type = QuestionType(i - 1)
    /\ \A i, j \in 1..Len(questions) :
           i # j => questions[i].id[2] # questions[j].id[2]

\* C15 as stated: generateQuiz returns exactly min(numQuestions, number of
\* candidate chunks) questions, each built from a distinct chunk.
C15_Original ==
    QuizReturned =>
        /\ Len(quizOut.questions)
               = Min(quizIn.numQuestions, Cardinality(CandidateIds))
        /\ FromDistinctChunks(quizOut.questions)

\* C15 amended: for a numQuestions that is a natural number, generateQuiz
\* returns exactly min(numQuestions, number of candidate chunks) questions;
\* for a negative numQuestions it returns as many questions as there are
\* candidates less -numQuestions (none when that is negative).  In both
\* cases each question is built from a distinct candidate, whichever
\* generator calls failed.
C15_QuestionCount ==
    QuizReturned =>
        /\ quizIn.numQuestions >= 0 =>
               Len(quizOut.questions)
                   = Min(quizIn.numQuestions, Cardinality(CandidateIds))
        /\ quizIn.numQuestions < 0 =>
               Len(quizOut.questions)
                   = Max(0, Cardinality(CandidateIds) + quizIn.numQuestions)
        /\ FromDistinctChunks(quizOut.questions)

\* two questions were asked of three candidates; the generator call of the
\* first failed, that of the second did not, and both questions came back
C15_Witness ==
    /\ QuizReturned
    /\ Len(quizIn.chunks) = 3
    /\ quizIn.numQuestions = 2
    /\ quizIn.topic = ""
    /\ Len(quizOut.questions) = 2
    /\ quizCalls[1].failed
    /\ ~quizCalls[2].failed

\* the number of helper calls that generateQuiz makes
ExpectedCalls ==
    IF quizIn.numQuestions >= 0
    THEN Min(quizIn.numQuestions, Cardinality(CandidateIds))
    ELSE Max(0, Cardinality(CandidateIds) + quizIn.numQuestions)

\* C20: generateQuiz issues the generator call of every selected chunk
\* without waiting for an earlier one (once it has started, all calls are
\* out, settled or not), and it completes only after every call has
\* settled: while one call has not returned, the quiz is not returned.
C20_AllIssuedAllAwaited ==
    /\ quizOut.started => Len(quizCalls) = ExpectedCalls
    /\ ~quizOut.started => Len(quizCalls) = 0
    /\ quizOut.done =>
           /\ quizOut.started
           /\ \A i \in 1..Len(quizCalls) : quizCalls[i].settled
           /\ Len(quizOut.questions) = Len(quizCalls)

\* three calls are out; the last two have settled, the first has not, and
\* the quiz has not been returned
C20_Witness ==
    /\ quizOut.started
    /\ ~quizOut.done
    /\ Len(quizCalls) = 3
    /\ ~quizCalls[1].settled
    /\ quizCalls[2].settled
    /\ quizCalls[3].settled

----------------------------------------------------------------------------
(* Properties of the HTTP routes *)

\* the request has been answered and its body was valid JSON
Answered == httpResp.status # 0 /\ httpReq.bodyParses

\* the question of a tutor request is absent, not a string, or empty after
\* sanitization
QuestionMissing ==
    \/ httpReq.question.type # "string"
    \/ sanitizeInput(httpReq.question) = <<>>

\* a required field of a grade request is missing
GradeFieldMissing ==
    httpReq.grade.question = "" \/ httpReq.grade.userAnswer = Undefined

KnownQuestionType ==
    httpReq.grade.questionType
        \in {"multiple-choice", "true-false", "open-ended"}

\* every field the handler requires is there and has a value it accepts
WellFormed ==
    \/ httpReq.route = "tutor" /\ ~QuestionMissing
    \/ httpReq.route = "quiz" /\ httpReq.action = "generate"
    \/ /\ httpReq.route = "quiz"
       /\ httpReq.action = "grade"
       /\ ~GradeFieldMissing
       /\ KnownQuestionType

\* C13 as stated: every well-formed request to the tutor and quiz
\* endpoints gets a non-4xx response, whatever the state of the store.
C13_Original ==
    (Answered /\ WellFormed) => httpResp.status \notin 400..499

\* C13 amended: the client-error statuses are 400 and 404.  400 answers
\* exactly the requests that are not well-formed (tutor: question absent,
\* not a string or empty after sanitization; quiz: unknown action, or a
\* grade request without question or userAnswer or with an unknown
\* question type).  404 answers exactly the generate requests that meet a
\* store without chunks, well-formed as they are.  Every other request
\* gets 200 or 500.
C13_ClientErrors ==
    Answered =>
        /\ httpResp.status \in {200, 400, 404, 500}
        /\ httpResp.status = 400 <=> ~WellFormed
        /\ httpResp.status = 404 <=>
               /\ httpReq.route = "quiz"
               /\ httpReq.action = "generate"
               /\ Len(chunks) = 0

\* a generate request for all topics met the empty store and got 404
C13_Witness ==
    /\ Answered
    /\ httpReq.action = "generate"
    /\ httpReq.topic = "all"
    /\ httpReq.count = 2
    /\ Len(chunks) = 0
    /\ httpResp.status = 404

\* C14: a request that misses a required field is rejected with 400 before
\* the agent, the store or the generator is called: a tutor request whose
\* question is absent, not a string or empty after sanitization, and a
\* grade request whose question is absent or whose userAnswer is undefined.
C14_RejectedBeforeCalls ==
    Answered =>
        /\ (httpReq.route = "tutor" /\ QuestionMissing) =>
               (httpResp.status = 400 /\ httpResp.calls = {})
        /\ (httpReq.route = "quiz" /\ httpReq.action = "grade"
                /\ GradeFieldMissing) =>
               (httpResp.status = 400 /\ httpResp.calls = {})

\* a question that is nothing but a tag was rejected on a store holding
\* chunks, and nothing was called
C14_Witness ==
    /\ Answered
    /\ httpReq.route = "tutor"
    /\ httpReq.question = Str(<<"<", "q", ">">>)
    /\ Len(chunks) = 2
    /\ httpResp.status = 400
    /\ httpResp.calls = {}

----------------------------------------------------------------------------
(* Properties of the store's contents *)

\* after is before followed by the chunks of one document, which carry its
\* embeddings in their order and the chunk indices 0, 1, ..
AppendsOneDocument(before, after) ==
    \E documentId \in DocIds, embeddings \in EmbeddingLists :
        /\ Len(after) = Len(before) + Len(embeddings)
        /\ SubSeq(after, 1, Len(before)) = before
        /\ \A j \in 1..Len(embeddings) :
               LET chunk == after[Len(before) + j]
               IN  /\ chunk.documentId = documentId
                   /\ chunk.embedding = embeddings[j]
                   /\ chunk.metadata.chunkIndex = j - 1

\* C16: the store is append-only: every step that changes it either is a
\* clear, which empties it, or appends the chunks of one add in embedding
\* order after the chunks already stored, which it leaves as they are and
\* in their order.  add does not await, so calls of add interleave only as
\* whole steps.
C16_AppendOnly ==
    [][chunks' # chunks =>
           \/ chunks' = <<>>
           \/ AppendsOneDocument(chunks, chunks')]_vars

\* two adds have happened: the store holds the first chunk of one document
\* and after it the first chunk of another add, with another embedding
C16_Witness ==
    /\ Len(chunks) = 2
    /\ chunks[1].metadata.chunkIndex = 0
    /\ chunks[2].metadata.chunkIndex = 0
    /\ chunks[1].embedding # chunks[2].embedding

----------------------------------------------------------------------------
(* Properties of createChunks *)

\* the last n words of a chunk
LastWords(chunk, n) ==
    SubSeq(chunk.content, Len(chunk.content) - n + 1, Len(chunk.content))

\* the first n words of a chunk
FirstWords(chunk, n) == SubSeq(chunk.content, 1, n)

\* every chunk holds between 1 and 500 words
ChunkSizes ==
    \A i \in 1..Len(docChunks.chunks) :
        /\ Len(docChunks.chunks[i].content) >= 1
        /\ Len(docChunks.chunks[i].content) <= CHUNK_SIZE

\* C17 as stated: every chunk holds at most 500 words, and the last 50
\* words of a chunk are the first 50 words of the next, whatever the length
\* of the document.
C17_Original ==
    docChunks.called =>
        /\ ChunkSizes
        /\ \A i \in 1..(Len(docChunks.chunks) - 1) :
            LET chunk == docChunks.chunks[i]
                next == docChunks.chunks[i + 1]
            IN  /\ Len(chunk.content) >= CHUNK_OVERLAP
                /\ Len(next.content) >= CHUNK_OVERLAP
                /\ LastWords(chunk, CHUNK_OVERLAP)
                       = FirstWords(next, CHUNK_OVERLAP)

\* C17: every chunk holds at most 500 words.  A chunk of 500 words that is
\* followed by another ends with the first 50 words of that one.  A chunk
\* of fewer than 500 words that is followed by another is followed by the
\* last chunk, which holds fewer than 50 words and is the end of the chunk
\* before it: the two overlap by the whole of the last chunk.
C17_ChunkWindows ==
    docChunks.called =>
        /\ ChunkSizes
        /\ \A i \in 1..(Len(docChunks.chunks) - 1) :
            LET chunk == docChunks.chunks[i]
                next == docChunks.chunks[i + 1]
            IN  IF Len(chunk.content) = CHUNK_SIZE
                THEN /\ Len(next.content) >= CHUNK_OVERLAP
                     /\ LastWords(chunk, CHUNK_OVERLAP)
                            = FirstWords(next, CHUNK_OVERLAP)
                     /\ \A j \in (CHUNK_OVERLAP + 1)..Len(next.content) :
                            \A k \in 1..Len(chunk.content) :
                                next.content[j] # chunk.content[k]
                ELSE /\ i + 1 = Len(docChunks.chunks)
                     /\ Len(next.content) < CHUNK_OVERLAP
                     /\ LastWords(chunk, Len(next.content)) = next.content

\* a document of three chunks: the first holds 500 words and shares 50 with
\* the second, the third holds fewer than 50 words
C17_Witness ==
    /\ docChunks.called
    /\ Len(docChunks.chunks) = 3
    /\ Len(docChunks.chunks[1].content) = CHUNK_SIZE
    /\ Len(docChunks.chunks[3].content) < CHUNK_OVERLAP

----------------------------------------------------------------------------
(* Properties of the shared instance *)

\* no two chunks of a store have the same chunkId
UniqueChunkIds(store) ==
    \A i, j \in 1..Len(store) :
        store[i].chunkId = store[j].chunkId => i = j

\* two chunks of a store with the same chunkId are chunks of the same
\* document with the same index, put there by two calls of add: an add
\* began (with its chunk 0) after the first of them was pushed
DuplicatesAcrossAdds(store) ==
    \A i, j \in 1..Len(store) :
        (i < j /\ store[i].chunkId = store[j].chunkId) =>
            /\ store[i].documentId = store[j].documentId
            /\ store[i].metadata.chunkIndex = store[j].metadata.chunkIndex
            /\ \E k \in (i + 1)..j : store[k].metadata.chunkIndex = 0

\* C18 as stated: whatever was added and cleared, no two chunks of a store
\* have the same chunkId.
C18_Original == \A ref \in 1..Len(heap) : UniqueChunkIds(heap[ref])

\* C18: a chunkId names the document and the index of the chunk among the
\* chunks of one add.  The chunks of one add, and the chunks of documents
\* with different ids, have different chunkIds; chunks with the same chunkId
\* come from two additions of the same documentId.
C18_ScopedToDocument == \A ref \in 1..Len(heap) : DuplicatesAcrossAdds(heap[ref])

\* a store that holds the same document twice, and so a chunkId twice
C18_Witness ==
    \E ref \in 1..Len(heap) :
        /\ Len(heap[ref]) = 2
        /\ heap[ref][1].chunkId = heap[ref][2].chunkId
        /\ heap[ref][1].documentId = heap[ref][2].documentId

\* a store that holds chunks of two documents
C18_TwoDocuments ==
    \E ref \in 1..Len(heap) :
        /\ Len(heap[ref]) = 2
        /\ heap[ref][1].documentId # heap[ref][2].documentId

\* C19 as stated: between two resets getVectorDatabaseInstance returns the
\* same object, and every chunk that addDocument has stored is in the
\* object that getVectorDatabaseInstance returns, where later calls of
\* search, getAllChunks and getStats find it.
C19_Original ==
    [][/\ (globalRef # 0 /\ globalRef' # 0) => globalRef' = globalRef
       /\ \A ref \in 1..Len(heap') : heap'[ref] # <<>> => ref = globalRef']_vars

\* the first half of C19 alone: an object stays the instance until a reset
C19_SameObject ==
    [][(globalRef # 0 /\ globalRef' # 0) => globalRef' = globalRef]_vars

\* a reader finds the store of the instance empty while another object
\* holds the chunks that addDocument has stored
C19_LostChunks ==
    /\ storeObs.called
    /\ storeObs.ref = globalRef
    /\ storeObs.chunks = <<>>
    /\ \E ref \in 1..Len(heap) : ref # globalRef /\ heap[ref] # <<>>

----------------------------------------------------------------------------
(* Properties of the range of the grade *)

\* C21 as stated: every grading response (status 200) to a grade request
\* carries a score between 0 and 100, whatever the question type and
\* whatever the generator does.
C21_Original ==
    gradeResp.status = 200 =>
        /\ gradeResp.hasScore
        /\ gradeResp.score >= 0
        /\ gradeResp.score <= 100

----------------------------------------------------------------------------
(* Properties of what the tutor uses *)

\* the question was embedded and the search of the store returned: no
\* stored embedding has another length than the query's
Retrieved ==
    /\ tutorOut.called
    /\ tutorOut.embedding # <<>>
    /\ \A i \in 1..Len(chunks) :
           Len(chunks[i].embedding) = Len(tutorOut.embedding)

\* the retrieved results with similarity >= 0.3, in rank order
AboveFloor(results) ==
    SelectSeq(results, LAMBDA r : AtLeastFloor(r.similarity))

\* C22: answerQuestion uses exactly the retrieved results with similarity
\* >= 0.3, in rank order, for the context it passes to the generator, for
\* the citations and for the confidence; when there is none (or the store
\* is empty) it answers "not found" with no citation and confidence 0, and
\* does not call the generator.
C22_OnlyRelevantUsed ==
    Retrieved =>
        LET kept == AboveFloor(tutorOut.searchResults)
        IN  /\ tutorOut.relevantResults = kept
            /\ IF kept = <<>>
               THEN /\ tutorOut.response = TutorResponse("not found", <<>>, 0)
                    /\ ~tutorOut.llmCalled
                    /\ tutorOut.contextChunks = <<>>
               ELSE /\ tutorOut.llmCalled
                    /\ tutorOut.contextChunks =
                           [j \in 1..Len(kept) |-> kept[j].content]
                    /\ ~tutorOut.llmFailed =>
                           /\ tutorOut.response.answer = "generated"
                           /\ tutorOut.response.citations = extractCitations(kept)
                           /\ tutorOut.response.confidence
                                  = calculateConfidence(kept)

\* two results of different similarity passed the floor and the answer was
\* generated from both
C22_Witness ==
    /\ Retrieved
    /\ Len(tutorOut.relevantResults) = 2
    /\ tutorOut.relevantResults[1].similarity
           # tutorOut.relevantResults[2].similarity
    /\ tutorOut.response.answer = "generated"

\* nothing passed the floor although the store holds chunks
C22_NothingRelevant ==
    /\ Retrieved
    /\ Len(tutorOut.searchResults) > 0
    /\ tutorOut.response.answer = "not found"

----------------------------------------------------------------------------
(* Properties of addDocument *)

\* the embeddings of a document that are not empty, in their order
NonEmpty(embeddings) == SelectSeq(embeddings, LAMBDA e : e # <<>>)

\* C24: addDocument stores exactly the chunks that have a non-empty
\* embedding, in their original relative order, after the chunks the store
\* held, as chunks of the given document; when no chunk has a non-empty
\* embedding it fails with 'Failed to add document to vector database' and
\* leaves the store as it was.
C24_ValidChunksStored ==
    addOut.called =>
        LET stored == heap[addOut.ref]
            before == addOut.before
            valid == NonEmpty(addOut.embeddings)
        IN  IF valid = <<>>
            THEN /\ addOut.error = "Failed to add document to vector database"
                 /\ stored = before
            ELSE /\ addOut.error = ""
                 /\ Len(stored) = Len(before) + Len(valid)
                 /\ SubSeq(stored, 1, Len(before)) = before
                 /\ \A k \in 1..Len(valid) :
                        /\ stored[Len(before) + k].embedding = valid[k]
                        /\ stored[Len(before) + k].documentId = addOut.documentId

\* a document whose first chunk has no embedding was added: its second
\* chunk alone is stored
C24_Witness ==
    /\ addOut.called
    /\ Len(addOut.embeddings) = 2
    /\ addOut.embeddings[1] = <<>>
    /\ addOut.error = ""
    /\ Len(heap[addOut.ref]) = Len(addOut.before) + 1

\* a document without any embedding was refused
C24_Refused ==
    /\ addOut.called
    /\ addOut.error # ""
    /\ heap[addOut.ref] # <<>>

----------------------------------------------------------------------------
(* Properties of the citations *)

\* the places of the document citations in the returned list
DocumentPlaces ==
    {j \in 1..Len(citeOut.citations) : citeOut.citations[j].type = "document"}

\* the rank of the first result that a document citation names
FirstRank(citation) ==
    CHOOSE i \in 0..Len(citeIn) :
        /\ i > 0 =>
               /\ citeIn[i].metadata.filename = citation.source
               /\ citeIn[i].metadata.pageNumber = citation.page
        /\ \A k \in 1..Len(citeIn) :
               (/\ citeIn[k].metadata.filename = citation.source
                /\ citeIn[k].metadata.pageNumber = citation.page) =>
                   (i > 0 /\ i <= k)

\* C25: the list has at most 5 citations, no two document citations have
\* the same filename and page, and the document citations are in the rank
\* order of the results they come from, each with the similarity of the
\* first result of its source.
C25_CitationList ==
    citeOut.called =>
        /\ Len(citeOut.citations) <= 5
        /\ \A j, k \in DocumentPlaces :
               LET c == citeOut.citations[j]
                   e == citeOut.citations[k]
               IN  /\ FirstRank(c) > 0
                   /\ c.relevance = citeIn[FirstRank(c)].similarity
                   /\ j < k =>
                          /\ <<c.source, c.page>> # <<e.source, e.page>>
                          /\ FirstRank(c) < FirstRank(e)

\* five results of four sources: the second result of a source is left
\* out, and the list holds four document citations and the web citation
C25_Witness ==
    /\ citeOut.called
    /\ Len(citeIn) = 5
    /\ Cardinality(DocumentPlaces) = 4
    /\ Len(citeOut.citations) = 5

\* five results of five sources: slice leaves the web citation out
C25_WebCitationCut ==
    /\ citeOut.called
    /\ Len(citeIn) = 5
    /\ Cardinality(DocumentPlaces) = 5

----------------------------------------------------------------------------
(* Properties of the order of the questions *)

\* the type that the claim gives to the question at position i (from 0)
TypeAt(i) ==
    CASE i % 3 = 0 -> "multiple-choice"
      [] i % 3 = 1 -> "true-false"
      [] i % 3 = 2 -> "open-ended"

\* C26: whatever the order in which the generator calls complete, the
\* helper at position i resolves to a question of the type of i mod 3, the
\* returned quiz holds the questions in the order of their positions, and a
\* quiz of three or more questions holds all three types.
C26_TypeByPosition ==
    /\ \A i \in 1..Len(quizCalls) :
           quizCalls[i].settled => quizCalls[i].question.type = TypeAt(i - 1)
    /\ quizOut.done =>
           /\ \A i \in 1..Len(quizOut.questions) :
                  quizOut.questions[i].type = TypeAt(i - 1)
           /\ Len(quizOut.questions) >= 3 =>
                  {quizOut.questions[i].type : i \in 1..Len(quizOut.questions)}
                      = {"multiple-choice", "true-false", "open-ended"}

\* a quiz of four questions was returned
C26_Witness ==
    /\ quizOut.done
    /\ Len(quizOut.questions) = 4

\* the generator call of the last helper completed before that of the first
C26_OutOfOrder ==
    /\ Len(quizCalls) = 4
    /\ quizCalls[4].settled
    /\ ~quizCalls[1].settled

----------------------------------------------------------------------------
(* Properties of the multiple-choice questions *)

C28_Fallback ==
    /\ genOut.called
    /\ genOut.question.type = "multiple-choice"
    /\ genIn.outcome.kind = "rejects"
    /\ genOut.question.correctAnswer = genOut.question.options[3]

----------------------------------------------------------------------------
(* Properties of sanitizeInput *)

\* s holds a tag: a "<", one character or more that are no ">", and a ">"
HasTag(s) ==
    \E i \in 1..Len(s) :
        /\ s[i] = "<"
        /\ \E j \in (i + 2)..Len(s) :
               s[j] = ">" /\ \A k \in (i + 1)..(j - 1) : s[k] # ">"

HasControl(s) == \E i \in 1..Len(s) : s[i] = "CTRL"

\* C27: the string sanitizeInput returns has at most MAX_LEN (500)
\* characters, holds no tag (a "<", one character or more, the next ">")
\* and no control character; for a value that is no string and for the
\* empty string it is the empty string.
C27_Sanitized ==
    sanOut.called =>
        /\ length(sanOut.clean) <= MAX_LEN
        /\ ~HasTag(sanOut.clean)
        /\ ~HasControl(sanOut.clean)
        /\ (sanIn.type # "string" \/ sanIn.chars = <<>>) => sanOut.clean = <<>>

\* a string of more than MAX_LEN characters with a tag and a control
\* character has been sanitized, and something of it is left
C27_Witness ==
    /\ sanOut.called
    /\ sanIn.type = "string"
    /\ length(sanIn.chars) > MAX_LEN
    /\ HasTag(sanIn.chars)
    /\ HasControl(sanIn.chars)
    /\ sanOut.clean # <<>>

\* a value that is no string has been sanitized
C27_NoString == sanOut.called /\ sanIn.type # "string"

\* the two characters "<>" are no tag and are left in place
C27_EmptyBrackets ==
    /\ sanOut.called
    /\ \E i \in 1..(Len(sanOut.clean) - 1) :
           sanOut.clean[i] = "<" /\ sanOut.clean[i + 1] = ">"

----------------------------------------------------------------------------
(* Properties of the vector-search handler *)

\* nothing more will happen for the request
VsSettled ==
    /\ vsPc = "returned"
    /\ pythonProcess \in {"none", "closed"}
    /\ timeout # "armed"

\* C30: the handler makes at most one res.status(..).json(..) call for a
\* request, whatever the order of the timeout and of the close of the
\* child, and exactly one once nothing more can happen for the request.
C30_Original ==
    /\ Len(resCalls) <= 1
    /\ VsSettled => Len(resCalls) = 1

\* the child closed before the timeout: the timer is cleared and one
\* response was sent
C30_ClosedInTime ==
    /\ timeout = "cleared"
    /\ Len(resCalls) = 1
    /\ ~resCalls[1].threw

\* the timeout fired, the child was killed and closed: the close listener
\* made a second call, which threw
C30_TimeoutThenClose ==
    /\ timeout = "fired"
    /\ pythonProcess = "closed"
    /\ Len(resCalls) = 2
    /\ ~resCalls[1].threw
    /\ resCalls[2].threw

----------------------------------------------------------------------------
(* Properties of GET and POST /api/init *)

\* the store of the shared instance
InstanceStore == IF globalRef = 0 THEN <<>> ELSE heap[globalRef]

\* request r passes its check of lines 18-19 in this step
Checks(r) == initCalls[r].pc = "check" /\ initCalls'[r].pc # "check"

\* C23: a POST /api/init whose check meets a store with at least one chunk
\* processes no file, leaves every store as it is and answers success,
\* "already initialized", with the stats of that store; a GET /api/init
\* answers success, and initialized exactly when the store it meets holds
\* at least one chunk.
C23_AlreadyInitialized ==
    /\ [](statusObs.called =>
              /\ statusObs.success
              /\ statusObs.initialized <=> Len(statusObs.store) >= 1
              /\ statusObs.stats = getStats(statusObs.store))
    /\ [][\A r \in 1..Len(initCalls) :
              (Checks(r) /\ Len(heap[initCalls[r].vectorDb]) >= 1) =>
                  /\ heap' = heap
                  /\ initCalls'[r].pc = "done"
                  /\ initCalls'[r].file = 0
                  /\ initCalls'[r].response =
                         InitResponse(TRUE,
                             "Vector database already initialized",
                             getStats(heap[initCalls[r].vectorDb]), 0, 0)]_vars

\* a POST was answered "already initialized" on a store with a chunk, and
\* a GET has reported that store as initialized
C23_Witness ==
    /\ \E r \in 1..Len(initCalls) :
           /\ initCalls[r].response.sent
           /\ initCalls[r].response.message
                  = "Vector database already initialized"
           /\ initCalls[r].response.stats.totalChunks >= 1
    /\ statusObs.called
    /\ statusObs.initialized

\* a GET has reported an empty store as not initialized
C23_NotInitialized == statusObs.called /\ ~statusObs.initialized

\* the documents of the store that were made from a file
FileDocuments(store, filename) ==
    {store[i].documentId :
        i \in {j \in 1..Len(store) : store[j].metadata.filename = filename}}

\* every POST /api/init received has been answered
AllAnswered == \A r \in 1..Len(initCalls) : initCalls[r].response.sent

\* C29: once the POST /api/init requests are answered, overlapping or not,
\* the store holds at most one document made from each PDF file.
C29_Original ==
    AllAnswered =>
        \A k \in 1..Len(pdfFiles) :
            Cardinality(FileDocuments(InstanceStore, pdfFiles[k])) <= 1

\* two requests that overlapped have both processed every file, and the
\* store holds two documents made from each file
C29_IngestedTwice ==
    /\ Len(initCalls) >= 2
    /\ AllAnswered
    /\ \A r \in 1..Len(initCalls) :
           initCalls[r].response.processed = Len(pdfFiles)
    /\ \A k \in 1..Len(pdfFiles) :
           Cardinality(FileDocuments(InstanceStore, pdfFiles[k])) >= 2

====
